---- MODULE Spec2Model ----
(***************************************************************************)
(* Birthday notification system: the notification pipeline of             *)
(* NotificationManager.checkAndNotify, the row validation of ExcelReader, *)
(* the date matching of BirthdayChecker, the retry loops of EmailService  *)
(* and WhatsAppService, and the startup sequence of index.ts main().      *)
(*                                                                         *)
(* Strings are sequences of one-character strings, so that trimming,      *)
(* lower-casing and pattern matching are computed as the code computes    *)
(* them.  A spreadsheet cell is a record [t, s, n]: t is the JavaScript   *)
(* type of the cell ("null", "str" or "num"), s its text, n its number.   *)
(***************************************************************************)
EXTENDS Integers, Sequences, FiniteSets, TLC

\* ------------------------------------------------------------------------
\* Bounds of the model
\* ------------------------------------------------------------------------
MaxRows == 2

\* ------------------------------------------------------------------------
\* Strings
\* ------------------------------------------------------------------------
Digits == <<"0", "1", "2", "3", "4", "5", "6", "7", "8", "9">>

IsDigit(c) == \E i \in 1..10 : Digits[i] = c

DigitVal(c) == (CHOOSE i \in 1..10 : Digits[i] = c) - 1

IsSpace(c) == c \in {" ", "\t", "\n"}

AllDigits(s) == \A i \in 1..Len(s) : IsDigit(s[i])

RECURSIVE ParseInt(_)
ParseInt(s) == IF s = <<>> THEN 0
               ELSE 10 * ParseInt(SubSeq(s, 1, Len(s) - 1)) + DigitVal(s[Len(s)])

RECURSIVE TrimLeft(_)
TrimLeft(s) == IF s # <<>> /\ IsSpace(Head(s)) THEN TrimLeft(Tail(s)) ELSE s

RECURSIVE TrimRight(_)
TrimRight(s) == IF s # <<>> /\ IsSpace(s[Len(s)])
                THEN TrimRight(SubSeq(s, 1, Len(s) - 1)) ELSE s

Trim(s) == TrimRight(TrimLeft(s))

UpperCase == <<"A", "B", "C", "D", "E", "F", "G", "H", "I", "J", "K", "L", "M",
               "N", "O", "P", "Q", "R", "S", "T", "U", "V", "W", "X", "Y", "Z">>
LowerCase == <<"a", "b", "c", "d", "e", "f", "g", "h", "i", "j", "k", "l", "m",
               "n", "o", "p", "q", "r", "s", "t", "u", "v", "w", "x", "y", "z">>

LowerChar(c) == IF \E i \in 1..Len(UpperCase) : UpperCase[i] = c
                THEN LowerCase[CHOOSE i \in 1..Len(UpperCase) : UpperCase[i] = c]
                ELSE c

ToLowerCase(s) == [i \in 1..Len(s) |-> LowerChar(s[i])]

\* the positions of character c in s
Positions(s, c) == {i \in 1..Len(s) : s[i] = c}

\* ------------------------------------------------------------------------
\* Cells of a raw spreadsheet row
\* ------------------------------------------------------------------------
Null == [t |-> "null", s |-> <<>>, n |-> 0]
Str(chars) == [t |-> "str", s |-> chars, n |-> 0]
Num(k) == [t |-> "num", s |-> <<>>, n |-> k]

\* JavaScript truthiness of a cell: null, "" and 0 are falsy
Truthy(cell) == \/ cell.t = "str" /\ cell.s # <<>>
                \/ cell.t = "num" /\ cell.n # 0

\* ------------------------------------------------------------------------
\* Dates: JavaScript's new Date(year, monthIndex, day) in local time
\* ------------------------------------------------------------------------
\* days since 1970-01-01 of the proleptic Gregorian date y-m-d (m in 1..12)
DaysFromCivil(y, m, d) ==
  LET yy  == IF m <= 2 THEN y - 1 ELSE y
      era == yy \div 400
      yoe == yy - era * 400
      mp  == (m + 9) % 12
      doy == (153 * mp + 2) \div 5 + d - 1
      doe == yoe * 365 + yoe \div 4 - yoe \div 100 + doy
  IN  era * 146097 + doe - 719468

\* the date [y, m, d] (m the 0-based month of getMonth) of a day number
CivilFromDays(z) ==
  LET zz  == z + 719468
      era == zz \div 146097
      doe == zz - era * 146097
      yoe == (doe - doe \div 1460 + doe \div 36524 - doe \div 146096) \div 365
      doy == doe - (365 * yoe + yoe \div 4 - yoe \div 100)
      mp  == (5 * doy + 2) \div 153
      d   == doy - (153 * mp + 2) \div 5 + 1
      m   == IF mp < 10 THEN mp + 3 ELSE mp - 9
      y   == yoe + era * 400 + (IF m <= 2 THEN 1 ELSE 0)
  IN  [y |-> y, m |-> m - 1, d |-> d]

\* new Date(year, monthIndex, day): a year in 0..99 means 1900 + year, and
\* an out-of-range month or day rolls over into the neighbouring months
NewDate(year, monthIndex, day) ==
  LET fullYear == IF year >= 0 /\ year <= 99 THEN 1900 + year ELSE year
      ym == fullYear + monthIndex \div 12
      mn == monthIndex % 12
  IN  CivilFromDays(DaysFromCivil(ym, mn + 1, 1) + day - 1)

NoDate == [y |-> 0, m |-> -1, d |-> 0]

\* ------------------------------------------------------------------------
\* ExcelReader: validation of one raw row
\* ------------------------------------------------------------------------
EMAIL == <<"e", "m", "a", "i", "l">>
WHATSAPP == <<"w", "h", "a", "t", "s", "a", "p", "p">>
BOTH == <<"b", "o", "t", "h">>

\* a raw row as sheet_to_json yields it: the header may be capitalised or not
RawRow(name, email, birthday, phone, channel) ==
  [Name |-> name, name |-> Null, Email |-> email, email |-> Null,
   Birthday |-> birthday, birthday |-> Null, Phone |-> phone, phone |-> Null,
   NotificationChannel |-> channel, notificationChannel |-> Null]

\* JavaScript a || b
OrElse(a, b) == IF Truthy(a) THEN a ELSE b

\* (variant: the domain need not hold a dot)
isValidEmailWithoutDot(email) ==
  /\ \A i \in 1..Len(email) : ~IsSpace(email[i])
  /\ Cardinality(Positions(email, "@")) = 1
  /\ LET at == CHOOSE i \in 1..Len(email) : email[i] = "@"
     IN  at > 1 /\ at < Len(email)

\* /^[^\s@]+@[^\s@]+\.[^\s@]+$/
isValidEmail(email) ==
  /\ \A i \in 1..Len(email) : ~IsSpace(email[i])
  /\ Cardinality(Positions(email, "@")) = 1
  /\ LET at == CHOOSE i \in 1..Len(email) : email[i] = "@"
     IN  /\ at > 1
         /\ \E p \in Positions(email, ".") : p > at + 1 /\ p < Len(email)

\* new Date(year, month - 1, day) is the date asked for: nothing rolled over
isValidDate(date, year, month, day) ==
  date.y = year /\ date.m = month - 1 /\ date.d = day

\* the three groups of a match of ^(\d{la})SEP(\d{lb})SEP(\d{lc})$, or <<>>
MatchThree(s, sep, la, lb, lc) ==
  LET seps == Positions(s, sep)
  IN  IF Cardinality(seps) # 2 THEN <<>>
      ELSE LET p1 == CHOOSE i \in seps : \A j \in seps : i <= j
               p2 == CHOOSE i \in seps : \A j \in seps : i >= j
               a  == SubSeq(s, 1, p1 - 1)
               b  == SubSeq(s, p1 + 1, p2 - 1)
               c  == SubSeq(s, p2 + 1, Len(s))
           IN  IF /\ AllDigits(a) /\ AllDigits(b) /\ AllDigits(c)
                  /\ Len(a) \in la /\ Len(b) \in lb /\ Len(c) \in lc
               THEN <<ParseInt(a), ParseInt(b), ParseInt(c)>>
               ELSE <<>>

\* XLSX.SSF.parse_date_code followed by new Date(date.y, date.m - 1, date.d):
\* serial 60 is the 1900-02-29 of the spreadsheet, which rolls to March 1
ExcelSerialDate(n) ==
  IF n < 0 \/ n > 2958465 THEN NoDate
  ELSE IF n = 60 THEN NewDate(1900, 1, 29)
  ELSE LET c == CivilFromDays(DaysFromCivil(1899, 12, 30) + n + (IF n < 60 THEN 1 ELSE 0))
       IN  NewDate(c.y, c.m, c.d)

parseDateString(text) ==
  LET trimmed == Trim(text)
      iso     == MatchThree(trimmed, "-", {4}, {1, 2}, {1, 2})
      slash   == MatchThree(trimmed, "/", {1, 2}, {1, 2}, {4})
  IN  IF iso # <<>> /\ isValidDate(NewDate(iso[1], iso[2] - 1, iso[3]), iso[1], iso[2], iso[3])
      THEN NewDate(iso[1], iso[2] - 1, iso[3])
      ELSE IF slash = <<>> THEN NoDate
      ELSE LET part1 == slash[1]
               part2 == slash[2]
               year  == slash[3]
           IN  IF isValidDate(NewDate(year, part1 - 1, part2), year, part1, part2)
               THEN NewDate(year, part1 - 1, part2)
               ELSE IF isValidDate(NewDate(year, part2 - 1, part1), year, part2, part1)
               THEN NewDate(year, part2 - 1, part1)
               ELSE NoDate

parseDate(dateValue) ==
  IF dateValue.t = "num" /\ ExcelSerialDate(dateValue.n) # NoDate
  THEN ExcelSerialDate(dateValue.n)
  ELSE IF dateValue.t = "str" THEN parseDateString(dateValue.s)
  ELSE NoDate

\* libphonenumber-js: the digits of a number written with a leading + and
\* optional punctuation; a number is valid when it has a country code and a
\* subscriber number of plausible length
PhonePunctuation == {" ", "-", "(", ")", "."}

LibDigits(phone) == SelectSeq(phone, LAMBDA c : c \notin PhonePunctuation)

LibIsValidPhoneNumber(phone) ==
  LET d == LibDigits(phone)
  IN  /\ Len(d) >= 9 /\ Len(d) <= 16
      /\ d[1] = "+"
      /\ AllDigits(Tail(d))
      /\ d[2] # "0"

LibFormatE164(phone) == LibDigits(phone)

\* (variant: the number is not compared with its E.164 form)
isValidPhoneNumberUnformatted(phone) ==
  IF phone = <<>> \/ Trim(phone) = <<>> THEN FALSE
  ELSE LibIsValidPhoneNumber(phone)

isValidPhoneNumber(phone) ==
  IF phone = <<>> \/ Trim(phone) = <<>> THEN FALSE
  ELSE IF ~LibIsValidPhoneNumber(phone) THEN FALSE
  ELSE LibFormatE164(phone) = phone

\* (variant: the text is lower-cased but not trimmed)
normalizeChannelUntrimmed(channelRaw) ==
  IF ~Truthy(channelRaw) \/ channelRaw.t # "str" THEN EMAIL
  ELSE LET normalized == ToLowerCase(channelRaw.s)
       IN  IF normalized = EMAIL \/ normalized = WHATSAPP \/ normalized = BOTH
           THEN normalized
           ELSE EMAIL

normalizeChannel(channelRaw) ==
  IF ~Truthy(channelRaw) \/ channelRaw.t # "str" THEN EMAIL
  ELSE LET normalized == ToLowerCase(Trim(channelRaw.s))
       IN  IF normalized = EMAIL \/ normalized = WHATSAPP \/ normalized = BOTH
           THEN normalized
           ELSE EMAIL

\* validateRecord returns null
NullRecord == [name |-> <<>>, email |-> <<>>, phone |-> <<>>, birthday |-> NoDate,
               notificationChannel |-> <<>>, rowNumber |-> 0]

\* (variant: only a missing phone falls back)
FallbackChannelWhenMissing(channel, phone) ==
  IF (channel = WHATSAPP \/ channel = BOTH) /\ phone = <<>> THEN EMAIL ELSE channel

\* the channel of the validated record: a WhatsApp channel without a valid
\* phone falls back to email
FallbackChannel(channel, phone) ==
  IF (channel = WHATSAPP \/ channel = BOTH) /\ (phone = <<>> \/ ~isValidPhoneNumber(phone))
  THEN EMAIL
  ELSE channel

validateRecord(record, rowNumber) ==
  LET name        == OrElse(record.Name, record.name)
      email       == OrElse(record.Email, record.email)
      birthdayRaw == OrElse(record.Birthday, record.birthday)
      phoneRaw    == OrElse(record.Phone, record.phone)
      channelRaw  == OrElse(record.NotificationChannel, record.notificationChannel)
      nameBad     == ~Truthy(name) \/ name.t # "str" \/ Trim(name.s) = <<>>
      emailBad    == \/ ~Truthy(email) \/ email.t # "str" \/ Trim(email.s) = <<>>
                     \/ ~isValidEmail(Trim(email.s))
      birthdayBad == ~Truthy(birthdayRaw)
      phone       == IF Truthy(phoneRaw) /\ phoneRaw.t = "str" THEN Trim(phoneRaw.s) ELSE <<>>
  IN  IF nameBad \/ emailBad \/ birthdayBad THEN NullRecord
      ELSE IF parseDate(birthdayRaw) = NoDate THEN NullRecord
      ELSE [name |-> Trim(name.s), email |-> Trim(email.s), phone |-> phone,
            birthday |-> parseDate(birthdayRaw),
            notificationChannel |-> FallbackChannel(normalizeChannel(channelRaw), phone),
            rowNumber |-> rowNumber]

\* ------------------------------------------------------------------------
\* BirthdayChecker
\* ------------------------------------------------------------------------
\* (variant: the dates are compared by their day of the year)
isBirthdayTodayByDayOfYear(birthday, today) ==
  DaysFromCivil(birthday.y, birthday.m + 1, birthday.d) - DaysFromCivil(birthday.y, 1, 1)
    = DaysFromCivil(today.y, today.m + 1, today.d) - DaysFromCivil(today.y, 1, 1)

isBirthdayToday(birthday, today) == birthday.m = today.m /\ birthday.d = today.d

\* (variant: the matching records come back last first)
findTodaysBirthdaysReversed(records, today) ==
  LET matching == SelectSeq(records, LAMBDA record : isBirthdayToday(record.birthday, today))
  IN  [k \in 1..Len(matching) |-> matching[Len(matching) + 1 - k]]

findTodaysBirthdays(records, today) ==
  SelectSeq(records, LAMBDA record : isBirthdayToday(record.birthday, today))

\* ------------------------------------------------------------------------
\* State
\* ------------------------------------------------------------------------
VARIABLES
  main,             \* main() of index.ts: [pc, exitCode, connectionSuccess]
  config,           \* ConfigService.config: [loaded, whatsapp |-> [enabled]]
  whatsappEnabled,  \* NotificationManager.whatsappEnabled
  emailService,     \* EmailService: [initialized] (transporter and config set)
  whatsappService,  \* WhatsAppService: [initialized] (twilioClient and config set)
  schedulerTask,    \* Scheduler.task # null
  run,              \* the execution of checkAndNotify in progress
  hist,             \* what the execution in progress has done so far
  suspended,        \* the other executions of checkAndNotify, each waiting at
                    \*   an await: a sequence of [run, hist]
  arg,              \* a function called on its own: its argument
  ret               \* a function called on its own: [done, value]

vars == <<main, config, whatsappEnabled, emailService, whatsappService,
          schedulerTask, run, hist, suspended, arg, ret>>

unitVars == <<arg, ret>>

startupVars == <<main, config, whatsappEnabled, emailService, whatsappService,
                 schedulerTask, suspended, unitVars>>

\* ------------------------------------------------------------------------
\* ConfigService
\* ------------------------------------------------------------------------
RequiredVars == {"EXCEL_FILE_PATH", "GMAIL_USER", "GMAIL_PASSWORD"}
TwilioVars == {"TWILIO_ACCOUNT_SID", "TWILIO_AUTH_TOKEN", "TWILIO_WHATSAPP_NUMBER"}

\* validateRequiredVariables throws
missingRequired(e) == RequiredVars \ e # {}

\* (variant: accountSid || authToken || fromNumber)
hasAnyCredential(e) == TwilioVars \cap e # {}

\* buildWhatsAppConfig(...).enabled
hasAllCredentials(e) == TwilioVars \subseteq e

\* ------------------------------------------------------------------------
\* The data a run can meet
\* ------------------------------------------------------------------------
ValidPhone == <<"+", "1", "4", "1", "5", "5", "5", "5", "2", "6", "7", "1">>
SpacedPhone == <<"+", "1", " ", "4", "1", "5", "5", "5", "5", "2", "6", "7", "1">>
ShortPhone == <<"1", "2", "3", "4", "5">>

SourceNames == {Str(<<"A", "l">>), Str(<<" ">>)}
SourceEmails == {Str(<<"a", "@", "b", ".", "c">>), Str(<<"a", "@", "b">>)}
SourceBirthdays == {Str(<<"1", "0", "/", "2", "5", "/", "1", "9", "9", "0">>),
                    Str(<<"2", "0", "0", "0", "-", "0", "2", "-", "2", "9">>),
                    Str(<<"0", "2", "/", "3", "0", "/", "2", "0", "0", "0">>)}
SourcePhones == {Null, Str(ValidPhone), Str(SpacedPhone)}
SourceChannels == {Null, Str(<<" ", "B", "o", "t", "h">>),
                   Str(<<"W", "H", "A", "T", "S", "A", "P", "P">>),
                   Str(<<"s", "m", "s">>)}

SourceRows == {RawRow(n, e, b, p, c) : n \in SourceNames, e \in SourceEmails,
               b \in SourceBirthdays, p \in SourcePhones, c \in SourceChannels}

\* new Date() at the time of the check: month (0-based) and day
Todays == {[y |-> 2025, m |-> 9, d |-> 25], [y |-> 2025, m |-> 1, d |-> 28]}

\* ------------------------------------------------------------------------
\* NotificationManager: one execution of checkAndNotify
\* ------------------------------------------------------------------------
NoResults == [email |-> FALSE, whatsapp |-> FALSE,
              emailAttempted |-> FALSE, whatsappAttempted |-> FALSE]

NoStatistics == [totalProcessed |-> 0, emailSent |-> 0, whatsappSent |-> 0,
                 emailFailed |-> 0, whatsappFailed |-> 0]

IdleRun == [pc |-> "idle", caller |-> "none", result |-> "none", error |-> "none",
            rowCount |-> 0, i |-> 0, validRecords |-> <<>>,
            todaysBirthdays |-> <<>>, templates |-> 0, idx |-> 0,
            results |-> NoResults, statistics |-> NoStatistics, attempt |-> 0]

\* sourceError: the error readBirthdays threw; calls: the deliveries asked of
\*   the two services, in order, each [channel, record, attempts (the outcome
\*   of each transport attempt), delays, outcome]; processed: the row numbers
\*   whose processRecord has returned; summaries: the summary events logged
NoHist == [sourceError |-> "none", calls |-> <<>>, processed |-> <<>>, summaries |-> <<>>]

NoArg == <<>>
NoRet == [done |-> FALSE, value |-> <<>>]

\* (variant: the email is sent whatever the channel)
wantsEmailAlways(record) == TRUE

\* record.notificationChannel === 'email' || ... === 'both'
wantsEmail(record) ==
  record.notificationChannel = EMAIL \/ record.notificationChannel = BOTH

\* (record.notificationChannel === 'whatsapp' || ... === 'both') && this.whatsappEnabled
wantsWhatsApp(record, enabled) ==
  (record.notificationChannel = WHATSAPP \/ record.notificationChannel = BOTH) /\ enabled

\* EmailService: the delay before the retry, and whether attempt n is retried
retryDelayMs == 5 * 60 * 1000

\* (variant: the retry is itself retried)
emailRetriedTwice(attempt) == attempt <= 2

emailRetried(attempt) == attempt = 1

\* WhatsAppService: the attempts of one delivery and the delay after attempt n
\* (variant: one attempt more)
maxRetriesFour == 3 + 1

maxRetries == 3

backoffDelayMs(attempt) == (2 ^ (attempt - 1)) * 1000

backoffBeforeRetry(attempt) == attempt < maxRetries

\* (variant: the catch block logs and does not rethrow)
ThrowSwallowed(r, error) == [r EXCEPT !.pc = "idle", !.result = "returned", !.error = error]

\* the catch block of checkAndNotify: log and rethrow to the caller
Throw(r, error) == [r EXCEPT !.pc = "idle", !.result = "threw", !.error = error]

\* checkAndNotify returns normally
Return(r) == [r EXCEPT !.pc = "idle", !.result = "returned"]

\* (variant: the email failure ends processRecord)
EmailFailedLeavesRecord(r) == [r EXCEPT !.pc = "tally"]

\* (variant: the email failure is rethrown out of processRecord)
EmailFailedRethrows(r) == Throw(r, "email delivery failed")

\* (variant: a failed email delivery turns the recipient into a WhatsApp one)
EmailFailedChangesChannel(r) ==
  [r EXCEPT !.pc = "whatsapp",
            !.todaysBirthdays[r.idx].notificationChannel =
              <<"w", "h", "a", "t", "s", "a", "p", "p">>]

\* the catch block around sendBirthdayEmail in processRecord: log, go on to
\* the WhatsApp part of the same record
EmailFailed(r) == [r EXCEPT !.pc = "whatsapp"]

\* (variant: the WhatsApp failure is rethrown out of processRecord)
WhatsAppFailedRethrows(r) == Throw(r, "whatsapp delivery failed")

\* the catch block around sendBirthdayMessage in processRecord: log, go on to
\* the end of processRecord
WhatsAppFailed(r) == [r EXCEPT !.pc = "tally"]

\* (variant: a channel that was not attempted counts as failed)
UpdateStatisticsUnattempted(statistics, result) ==
  [totalProcessed |-> statistics.totalProcessed + 1,
   emailSent      |-> statistics.emailSent + (IF result.email THEN 1 ELSE 0),
   whatsappSent   |-> statistics.whatsappSent + (IF result.whatsapp THEN 1 ELSE 0),
   emailFailed    |-> statistics.emailFailed + (IF ~result.email THEN 1 ELSE 0),
   whatsappFailed |-> statistics.whatsappFailed + (IF ~result.whatsapp THEN 1 ELSE 0)]

\* the statistics after processRecord returned result
UpdateStatistics(statistics, result) ==
  [totalProcessed |-> statistics.totalProcessed + 1,
   emailSent      |-> statistics.emailSent + (IF result.email THEN 1 ELSE 0),
   whatsappSent   |-> statistics.whatsappSent + (IF result.whatsapp THEN 1 ELSE 0),
   emailFailed    |-> statistics.emailFailed
                        + (IF result.emailAttempted /\ ~result.email THEN 1 ELSE 0),
   whatsappFailed |-> statistics.whatsappFailed
                        + (IF result.whatsappAttempted /\ ~result.whatsapp THEN 1 ELSE 0)]

NewCall(channel, record) ==
  [channel |-> channel, record |-> record, attempts |-> <<>>, delays |-> <<>>,
   outcome |-> "pending"]

\* the history with the delivery in progress changed
Attempted(h, ok) == [h EXCEPT !.calls[Len(h.calls)].attempts = Append(@, ok)]
Delayed(h, ms) == [h EXCEPT !.calls[Len(h.calls)].delays = Append(@, ms)]

\* (variant: the delivery comes back with neither a result nor an error)
SettledWithoutResult(h, outcome) == h

\* the delivery resolves, or throws its terminal failure
Settled(h, outcome) == [h EXCEPT !.calls[Len(h.calls)].outcome = outcome]

CurrentRecord == run.todaysBirthdays[run.idx]

\* checkAndNotify is called
BeginRun(caller) ==
  /\ run' = [IdleRun EXCEPT !.pc = "reading", !.caller = caller]
  /\ hist' = NoHist

\* what readBirthdays throws: 'Excel file not found: ...' as it is, anything
\* else wrapped in 'Failed to read Excel file: ...'
SourceErrors == {"Excel file not found", "Failed to read Excel file"}

\* excelReader.readBirthdays up to the validation loop: the file is missing
\* or unreadable (readBirthdays throws), has no data rows, or has n rows
ReadSource ==
  /\ run.pc = "reading"
  /\ \/ \E failure \in SourceErrors :
          /\ run' = Throw(run, failure)
          /\ hist' = [hist EXCEPT !.sourceError = failure]
     \/ \E n \in 0..MaxRows :
          /\ run' = IF n = 0 THEN Return(run)
                    ELSE [run EXCEPT !.pc = "validating", !.rowCount = n, !.i = 0]
          /\ UNCHANGED hist
  /\ UNCHANGED startupVars

\* one turn of the validation loop of readBirthdays
ValidateRow ==
  /\ run.pc = "validating"
  /\ run.i < run.rowCount
  /\ \E row \in SourceRows :
       LET validatedRecord == validateRecord(row, run.i + 2)
       IN  run' = [run EXCEPT !.i = @ + 1,
                     !.validRecords = IF validatedRecord = NullRecord THEN @
                                      ELSE Append(@, validatedRecord)]
  /\ UNCHANGED <<startupVars, hist>>

\* (variant: no early return when nobody has a birthday today)
FindBirthdaysGoesOn ==
  /\ run.pc = "validating"
  /\ run.i = run.rowCount
  /\ IF Len(run.validRecords) = 0 THEN run' = Return(run)
     ELSE \E today \in Todays :
            run' = [run EXCEPT !.pc = "templates",
                      !.todaysBirthdays = findTodaysBirthdays(run.validRecords, today)]
  /\ UNCHANGED <<startupVars, hist>>

\* readBirthdays returns; checkAndNotify stops on no records or no match
FindBirthdays ==
  /\ run.pc = "validating"
  /\ run.i = run.rowCount
  /\ IF Len(run.validRecords) = 0 THEN run' = Return(run)
     ELSE \E today \in Todays :
            LET todaysBirthdays == findTodaysBirthdays(run.validRecords, today)
            IN  run' = IF Len(todaysBirthdays) = 0 THEN Return(run)
                       ELSE [run EXCEPT !.pc = "templates",
                                        !.todaysBirthdays = todaysBirthdays]
  /\ UNCHANGED <<startupVars, hist>>

\* ITemplateEngine.loadWhatsAppTemplate (ITemplateEngine.ts:28) has no
\* implementation among the sources; as documented it returns a template,
\* the default one when the file cannot be used, and does not throw
loadWhatsAppTemplate(r) == [r EXCEPT !.templates = @ + 1]

\* loadTemplate and loadWhatsAppTemplate (neither throws: a template that
\* cannot be loaded is replaced by the default), then the statistics
LoadTemplates ==
  /\ run.pc = "templates"
  /\ run' = loadWhatsAppTemplate([run EXCEPT !.pc = "record", !.templates = 1,
                                             !.statistics = NoStatistics, !.idx = 1])
  /\ UNCHANGED <<startupVars, hist>>

\* processRecord up to its first await: the email part
StartRecord ==
  /\ run.pc = "record"
  /\ run.idx <= Len(run.todaysBirthdays)
  /\ IF wantsEmail(CurrentRecord)
     THEN LET r == [run EXCEPT !.results = [NoResults EXCEPT !.emailAttempted = TRUE]]
              h == [hist EXCEPT !.calls = Append(@, NewCall("email", CurrentRecord))]
          IN  IF emailService.initialized
              THEN /\ run' = [r EXCEPT !.pc = "emailSend", !.attempt = 1]
                   /\ hist' = h
              ELSE /\ run' = EmailFailed(r)
                   /\ hist' = Settled(h, "threw")
     ELSE /\ run' = [run EXCEPT !.results = NoResults, !.pc = "whatsapp"]
          /\ UNCHANGED hist
  /\ UNCHANGED startupVars

\* sendEmail resolves or rejects
EmailAttempt ==
  /\ run.pc = "emailSend"
  /\ \E ok \in BOOLEAN :
       IF ok
       THEN /\ run' = [run EXCEPT !.results.email = TRUE, !.pc = "whatsapp"]
            /\ hist' = Settled(Attempted(hist, ok), "resolved")
       ELSE IF emailRetried(run.attempt)
       THEN /\ run' = [run EXCEPT !.pc = "emailDelay"]
            /\ hist' = Attempted(hist, ok)
       ELSE /\ run' = EmailFailed(run)
            /\ hist' = Settled(Attempted(hist, ok), "threw")
  /\ UNCHANGED startupVars

\* (variant: the WhatsApp part starts while the email retry is still due)
EmailDelaySkipsToWhatsApp ==
  /\ run.pc = "emailDelay"
  /\ run' = [run EXCEPT !.pc = "whatsapp"]
  /\ hist' = Delayed(hist, retryDelayMs)
  /\ UNCHANGED startupVars

\* the retry delay of sendBirthdayEmail elapses
EmailDelay ==
  /\ run.pc = "emailDelay"
  /\ run' = [run EXCEPT !.pc = "emailSend", !.attempt = @ + 1]
  /\ hist' = Delayed(hist, retryDelayMs)
  /\ UNCHANGED startupVars

\* processRecord after the email part: the WhatsApp part
WhatsAppPart ==
  /\ run.pc = "whatsapp"
  /\ IF wantsWhatsApp(CurrentRecord, whatsappEnabled)
     THEN LET r == [run EXCEPT !.results.whatsappAttempted = TRUE]
              h == [hist EXCEPT !.calls = Append(@, NewCall("whatsapp", CurrentRecord))]
          IN  IF whatsappService.initialized /\ CurrentRecord.phone # <<>>
              THEN /\ run' = [r EXCEPT !.pc = "waSend", !.attempt = 1]
                   /\ hist' = h
              ELSE /\ run' = WhatsAppFailed(r)
                   /\ hist' = Settled(h, "threw")
     ELSE /\ run' = [run EXCEPT !.pc = "tally"]
          /\ UNCHANGED hist
  /\ UNCHANGED startupVars

\* sendMessage resolves or rejects
WhatsAppAttempt ==
  /\ run.pc = "waSend"
  /\ \E ok \in BOOLEAN :
       IF ok
       THEN /\ run' = [run EXCEPT !.results.whatsapp = TRUE, !.pc = "tally"]
            /\ hist' = Settled(Attempted(hist, ok), "resolved")
       ELSE IF backoffBeforeRetry(run.attempt)
       THEN /\ run' = [run EXCEPT !.pc = "waDelay"]
            /\ hist' = Attempted(hist, ok)
       ELSE IF run.attempt + 1 <= maxRetries
       THEN /\ run' = [run EXCEPT !.attempt = @ + 1]
            /\ hist' = Attempted(hist, ok)
       ELSE /\ run' = WhatsAppFailed(run)
            /\ hist' = Settled(Attempted(hist, ok), "threw")
  /\ UNCHANGED startupVars

\* the backoff delay of sendBirthdayMessage elapses, the loop goes round
WhatsAppDelay ==
  /\ run.pc = "waDelay"
  /\ hist' = Delayed(hist, backoffDelayMs(run.attempt))
  /\ run' = IF run.attempt + 1 <= maxRetries
            THEN [run EXCEPT !.pc = "waSend", !.attempt = @ + 1]
            ELSE WhatsAppFailed(run)
  /\ UNCHANGED startupVars

\* the summary event of a run with the given statistics
SummaryEvent(statistics) ==
  [totalRecords |-> Len(run.validRecords),
   birthdaysToday |-> Len(run.todaysBirthdays),
   emailsSent |-> statistics.emailSent,
   emailsFailed |-> statistics.emailFailed,
   whatsappSent |-> statistics.whatsappSent,
   whatsappFailed |-> statistics.whatsappFailed,
   whatsappEnabled |-> whatsappEnabled]

\* (variant: the summary is logged inside the loop, once per recipient)
TallyLogsSummary ==
  /\ run.pc = "tally"
  /\ run' = [run EXCEPT !.statistics = UpdateStatistics(@, run.results),
                        !.idx = @ + 1, !.pc = "record"]
  /\ hist' = [hist EXCEPT !.processed = Append(@, CurrentRecord.rowNumber),
                          !.summaries = Append(@, SummaryEvent(run'.statistics))]
  /\ UNCHANGED startupVars

\* processRecord returns, the loop of checkAndNotify counts its result
Tally ==
  /\ run.pc = "tally"
  /\ run' = [run EXCEPT !.statistics = UpdateStatistics(@, run.results),
                        !.idx = @ + 1, !.pc = "record"]
  /\ hist' = [hist EXCEPT !.processed = Append(@, CurrentRecord.rowNumber)]
  /\ UNCHANGED startupVars

\* the loop is over: the summary event, checkAndNotify returns
Summary ==
  /\ run.pc = "record"
  /\ run.idx > Len(run.todaysBirthdays)
  /\ run' = Return(run)
  /\ hist' = [hist EXCEPT !.summaries = Append(@, SummaryEvent(run.statistics))]
  /\ UNCHANGED startupVars

\* ------------------------------------------------------------------------
\* index.ts: main()
\* ------------------------------------------------------------------------
runVars == <<run, hist, suspended, unitVars>>

\* the catch block of main: process.exit(1)
Exit(code) == main' = [main EXCEPT !.pc = "exited", !.exitCode = code]

Goto(pc) == main' = [main EXCEPT !.pc = pc]

\* process.env: the variables that are set, any of them unless the process
\* is followed from a given environment
Environments == SUBSET (RequiredVars \cup TwilioVars)
ProcessEnvs == IF arg = NoArg THEN Environments ELSE {arg.env}

\* steps 1 to 3: loadConfig reads process.env (env: the variables that are
\* set), then the components are constructed; the NotificationManager is
\* given the value of config.whatsapp.enabled
LoadConfig ==
  /\ main.pc = "loadConfig"
  /\ \E env \in ProcessEnvs :
       IF missingRequired(env)
       THEN /\ Exit(1)
            /\ UNCHANGED <<config, whatsappEnabled>>
       ELSE /\ config' = [loaded |-> TRUE,
                          whatsapp |-> [enabled |-> hasAllCredentials(env)]]
            /\ whatsappEnabled' = config'.whatsapp.enabled
            /\ Goto("initEmail")
  /\ UNCHANGED <<emailService, whatsappService, schedulerTask, runVars>>

\* step 4: emailService.initialize
InitEmail ==
  /\ main.pc = "initEmail"
  /\ emailService' = [initialized |-> TRUE]
  /\ Goto("testEmail")
  /\ UNCHANGED <<config, whatsappEnabled, whatsappService, schedulerTask, runVars>>

\* (variant: the result of the connection test is not looked at)
TestEmailIgnored ==
  /\ main.pc = "testEmail"
  /\ \E connectionSuccess \in BOOLEAN :
       main' = [main EXCEPT !.pc = "initWhatsApp", !.connectionSuccess = connectionSuccess]
  /\ UNCHANGED <<config, whatsappEnabled, emailService, whatsappService,
                 schedulerTask, runVars>>

\* step 4: emailService.testConnection; a failed test aborts the startup
TestEmail ==
  /\ main.pc = "testEmail"
  /\ \E connectionSuccess \in BOOLEAN :
       IF connectionSuccess
       THEN main' = [main EXCEPT !.pc = "initWhatsApp", !.connectionSuccess = TRUE]
       ELSE Exit(1)
  /\ UNCHANGED <<config, whatsappEnabled, emailService, whatsappService,
                 schedulerTask, runVars>>

\* step 4b: whatsappService.initialize when the configuration enables it
InitWhatsApp ==
  /\ main.pc = "initWhatsApp"
  /\ IF config.whatsapp.enabled
     THEN /\ whatsappService' = [initialized |-> TRUE]
          /\ Goto("testWhatsApp")
     ELSE /\ UNCHANGED whatsappService
          /\ Goto("startupCheck")
  /\ UNCHANGED <<config, whatsappEnabled, emailService, schedulerTask, runVars>>

\* step 4b: whatsappService.testConnection; a failed test clears
\* config.whatsapp.enabled
TestWhatsApp ==
  /\ main.pc = "testWhatsApp"
  /\ \E whatsappConnectionSuccess \in BOOLEAN :
       config' = IF whatsappConnectionSuccess THEN config
                 ELSE [config EXCEPT !.whatsapp.enabled = FALSE]
  /\ Goto("startupCheck")
  /\ UNCHANGED <<whatsappEnabled, emailService, whatsappService, schedulerTask, runVars>>

\* step 5: the immediate check
StartupCheck ==
  /\ main.pc = "startupCheck"
  /\ BeginRun("main")
  /\ Goto("awaitCheck")
  /\ UNCHANGED <<config, whatsappEnabled, emailService, whatsappService, schedulerTask,
                 suspended, unitVars>>

\* (variant: the immediate check is not awaited)
StartSchedulerWithoutAwait ==
  /\ main.pc = "awaitCheck"
  /\ schedulerTask' = TRUE
  /\ Goto("serving")
  /\ UNCHANGED <<config, whatsappEnabled, emailService, whatsappService, runVars>>

\* steps 6 and 7 once the immediate check has returned: scheduler.start;
\* an immediate check that threw ends in the catch block of main
StartScheduler ==
  /\ main.pc = "awaitCheck"
  /\ run.pc = "idle"
  /\ IF run.result = "threw"
     THEN /\ Exit(1)
          /\ UNCHANGED schedulerTask
     ELSE /\ schedulerTask' = TRUE
          /\ Goto("serving")
  /\ UNCHANGED <<config, whatsappEnabled, emailService, whatsappService, runVars>>

\* Scheduler: the cron task fires and calls checkAndNotify.  This
\* specification takes the firings that find no check in progress.
ScheduledCheck ==
  /\ main.pc = "serving"
  /\ schedulerTask
  /\ run.pc = "idle"
  /\ BeginRun("cron")
  /\ UNCHANGED startupVars

\* the process before main() has done anything
NotStarted ==
  /\ main = [pc |-> "loadConfig", exitCode |-> 0, connectionSuccess |-> FALSE,
             signal |-> "none"]
  /\ config = [loaded |-> FALSE, whatsapp |-> [enabled |-> FALSE]]
  /\ whatsappEnabled = FALSE
  /\ emailService = [initialized |-> FALSE]
  /\ whatsappService = [initialized |-> FALSE]
  /\ schedulerTask = FALSE
  /\ run = IdleRun
  /\ hist = NoHist
  /\ suspended = <<>>

Init ==
  /\ NotStarted
  /\ arg = NoArg
  /\ ret = NoRet

Next ==
  \/ LoadConfig
  \/ InitEmail
  \/ TestEmail
  \/ InitWhatsApp
  \/ TestWhatsApp
  \/ StartupCheck
  \/ StartScheduler
  \/ ScheduledCheck
  \/ ReadSource
  \/ ValidateRow
  \/ FindBirthdays
  \/ LoadTemplates
  \/ StartRecord
  \/ EmailAttempt
  \/ EmailDelay
  \/ WhatsAppPart
  \/ WhatsAppAttempt
  \/ WhatsAppDelay
  \/ Tally
  \/ Summary

Spec == Init /\ [][Next]_vars

\* ------------------------------------------------------------------------
\* The process and the signals SIGINT and SIGTERM
\* ------------------------------------------------------------------------
\* (variant: the handler lets the check in progress end before it exits)
ShutdownAfterRun ==
  /\ main.pc # "exited"
  /\ \/ /\ main.signal = "none"
        /\ \E signal \in {"SIGINT", "SIGTERM"} :
             main' = [main EXCEPT !.signal = signal]
        /\ UNCHANGED <<schedulerTask, run>>
     \/ /\ main.signal # "none"
        /\ run.pc = "idle"
        /\ schedulerTask' = FALSE
        /\ main' = [main EXCEPT !.pc = "exited"]
        /\ UNCHANGED run
  /\ UNCHANGED <<config, whatsappEnabled, emailService, whatsappService, hist,
                 suspended, unitVars>>

\* a signal arrives.  Once main has reached setupGracefulShutdown the handler
\* stops the scheduler and calls process.exit(0) without awaiting anything;
\* before that no handler is installed and the signal ends the process.
\* Either way the promises pending in a check in progress are never resumed.
Shutdown ==
  /\ main.pc # "exited"
  /\ \E signal \in {"SIGINT", "SIGTERM"} :
       IF main.pc = "serving"
         THEN /\ schedulerTask' = FALSE
              /\ main' = [main EXCEPT !.pc = "exited", !.exitCode = 0, !.signal = signal]
         ELSE /\ UNCHANGED schedulerTask
              /\ main' = [main EXCEPT !.pc = "exited",
                                      !.exitCode = IF signal = "SIGINT" THEN 128 + 2
                                                   ELSE 128 + 15,
                                      !.signal = signal]
  /\ run' = IF run.pc = "idle" THEN run ELSE [run EXCEPT !.pc = "exited"]
  /\ UNCHANGED <<config, whatsappEnabled, emailService, whatsappService, hist,
                 suspended, unitVars>>

NextShutdown == Next \/ Shutdown

SpecShutdown == Init /\ [][NextShutdown]_vars

\* the same process followed from a given environment
InitEnv ==
  /\ NotStarted
  /\ arg \in [fn : {"main"}, env : Environments]
  /\ ret = NoRet

SpecEnv == InitEnv /\ [][Next]_vars

\* the same process where every transport call and every delay returns: a
\* pending sendEmail, sendMessage or delay promise is settled in the end
LiveSpec ==
  /\ Spec
  /\ WF_vars(EmailAttempt)
  /\ WF_vars(EmailDelay)
  /\ WF_vars(WhatsAppAttempt)
  /\ WF_vars(WhatsAppDelay)

\* ------------------------------------------------------------------------
\* validateRecord called on its own: the rows of a larger table
\* ------------------------------------------------------------------------
\* the cells of the source and others: missing and numeric cells, padded
\* text, a phone with spaces around it; and the rows of the source under
\* lower-case headers
UnitRows ==
  LET PaddedPhone ==
        <<" ", "+", "1", "4", "1", "5", "5", "5", "5", "2", "6", "7", "1", " ">>
      UnitNames == SourceNames \cup {Null, Num(7)}
      UnitEmails == SourceEmails \cup {Null, Str(<<" ", "a", "@", "b", ".", "c", " ">>)}
      UnitBirthdays == SourceBirthdays \cup
                         {Null, Num(0), Num(33171),
                          Str(<<"2", "5", "/", "1", "0", "/", "1", "9", "9", "0">>)}
      UnitPhones == SourcePhones \cup
                      {Str(ShortPhone), Str(<<>>), Str(<<" ">>), Str(PaddedPhone),
                       Num(5552671),
                       Str(<<"+", "0", "1", "2", "3", "4", "5", "6", "7", "8">>)}
      UnitChannels == SourceChannels \cup
                        {Str(<<"e", "m", "a", "i", "l">>), Str(<<"b", "o", "t", "h">>),
                         Num(1), Str(<<>>)}
      LowerHeaders(row) ==
        [Name |-> Null, name |-> row.Name, Email |-> Null, email |-> row.Email,
         Birthday |-> Null, birthday |-> row.Birthday, Phone |-> Null,
         phone |-> row.Phone, NotificationChannel |-> Null,
         notificationChannel |-> row.NotificationChannel]
      rows == {RawRow(n, e, b, p, c) : n \in UnitNames, e \in UnitEmails,
               b \in UnitBirthdays, p \in UnitPhones, c \in UnitChannels}
  IN  rows \cup {LowerHeaders(row) : row \in SourceRows}

CallValidateRecord ==
  /\ ~ret.done
  /\ arg.fn = "validateRecord"
  /\ ret' = [done |-> TRUE, value |-> validateRecord(arg.record, arg.rowNumber)]
  /\ UNCHANGED <<main, config, whatsappEnabled, emailService, whatsappService,
                 schedulerTask, run, hist, suspended, arg>>

\* ------------------------------------------------------------------------
\* The scheduled callback while an earlier check is still waiting.  node-cron
\* calls the callback at every tick of the cron expression, whether or not
\* the promise of the previous call has settled, and Scheduler.start and
\* checkAndNotify keep no flag of a check in progress.  The source is a small
\* table here, so that two and three executions can be followed together.
\* ------------------------------------------------------------------------
MaxSuspended == 1

OverlapBoth ==
  RawRow(Str(<<"A", "l">>), Str(<<"a", "@", "b", ".", "c">>),
         Str(<<"1", "0", "/", "2", "5", "/", "1", "9", "9", "0">>),
         Str(ValidPhone), Str(<<" ", "B", "o", "t", "h">>))
OverlapEmail ==
  RawRow(Str(<<"A", "l">>), Str(<<"a", "@", "b", ".", "c">>),
         Str(<<"1", "0", "/", "2", "5", "/", "1", "9", "9", "0">>), Null, Null)

OverlapTables == {<<OverlapBoth>>, <<OverlapEmail>>}

\* the loop leaving at the first row that does not validate
RECURSIVE ReadRowsStopsAtInvalid(_, _)
ReadRowsStopsAtInvalid(rawData, i) ==
  IF i >= Len(rawData) THEN <<>>
  ELSE LET validatedRecord == validateRecord(rawData[i + 1], i + 2)
       IN  IF validatedRecord = NullRecord THEN <<>>
           ELSE <<validatedRecord>> \o ReadRowsStopsAtInvalid(rawData, i + 1)

\* the validation loop of readBirthdays from row i on
RECURSIVE ReadRows(_, _)
ReadRows(rawData, i) ==
  IF i >= Len(rawData) THEN <<>>
  ELSE LET validatedRecord == validateRecord(rawData[i + 1], i + 2)
       IN  (IF validatedRecord = NullRecord THEN <<>> ELSE <<validatedRecord>>)
             \o ReadRows(rawData, i + 1)

readBirthdays(rawData) == ReadRows(rawData, 0)

\* checkAndNotify from its call to its first await (none of this code
\* awaits): the read, the matching, the templates, the statistics
RunToDispatch(caller, rawData, today) ==
  LET validRecords == readBirthdays(rawData)
      todaysBirthdays == findTodaysBirthdays(validRecords, today)
      r == [IdleRun EXCEPT !.caller = caller, !.rowCount = Len(rawData),
                           !.i = Len(rawData), !.validRecords = validRecords]
  IN  IF Len(validRecords) = 0 \/ Len(todaysBirthdays) = 0 THEN Return(r)
      ELSE loadWhatsAppTemplate([r EXCEPT !.pc = "record", !.templates = 1,
                                          !.todaysBirthdays = todaysBirthdays,
                                          !.statistics = NoStatistics, !.idx = 1])

\* the places where an execution waits for a promise: the transport calls
\* and the delays
AwaitPcs == {"emailSend", "emailDelay", "waSend", "waDelay"}

Execution(r, h) == [run |-> r, hist |-> h]

RemoveAt(seq, k) == SubSeq(seq, 1, k - 1) \o SubSeq(seq, k + 1, Len(seq))

\* Scheduler: the cron task fires and the callback calls checkAndNotify,
\* when the events of the process let it: the execution stepped last has
\* returned or waits at an await.  An execution that waits is put aside.
CronCallback ==
  /\ main.pc = "serving"
  /\ schedulerTask
  /\ run.pc \in AwaitPcs \cup {"idle"}
  /\ run.pc # "idle" => Len(suspended) < MaxSuspended
  /\ suspended' = IF run.pc = "idle" THEN suspended
                  ELSE Append(suspended, Execution(run, hist))
  /\ \/ \E failure \in SourceErrors :
          /\ run' = Throw([IdleRun EXCEPT !.caller = "cron"], failure)
          /\ hist' = [NoHist EXCEPT !.sourceError = failure]
     \/ \E rawData \in OverlapTables, today \in Todays :
          /\ run' = RunToDispatch("cron", rawData, today)
          /\ hist' = NoHist
  /\ UNCHANGED <<main, config, whatsappEnabled, emailService, whatsappService,
                 schedulerTask, unitVars>>

\* (variant: the statistics are a field of the manager, which the execution
\* that goes on finds as the other one left them)
ResumeExecutionSharingStatistics ==
  /\ run.pc \in AwaitPcs \cup {"idle"}
  /\ \E k \in 1..Len(suspended) :
       /\ run' = [suspended[k].run EXCEPT !.statistics = run.statistics]
       /\ hist' = suspended[k].hist
       /\ suspended' = IF run.pc = "idle" THEN RemoveAt(suspended, k)
                       ELSE [suspended EXCEPT ![k] = Execution(run, hist)]
  /\ UNCHANGED <<main, config, whatsappEnabled, emailService, whatsappService,
                 schedulerTask, unitVars>>

\* the promise an execution put aside waits for is the next to settle: that
\* execution goes on, and the one stepped last waits in its turn (one that
\* has returned is over)
ResumeExecution ==
  /\ run.pc \in AwaitPcs \cup {"idle"}
  /\ \E k \in 1..Len(suspended) :
       /\ run' = suspended[k].run
       /\ hist' = suspended[k].hist
       /\ suspended' = IF run.pc = "idle" THEN RemoveAt(suspended, k)
                       ELSE [suspended EXCEPT ![k] = Execution(run, hist)]
  /\ UNCHANGED <<main, config, whatsappEnabled, emailService, whatsappService,
                 schedulerTask, unitVars>>

\* the process once main() has returned: the immediate check found an empty
\* file, the scheduler is started
InitOverlap ==
  /\ main = [pc |-> "serving", exitCode |-> 0, connectionSuccess |-> TRUE,
             signal |-> "none"]
  /\ \E enabled \in BOOLEAN :
       /\ config = [loaded |-> TRUE, whatsapp |-> [enabled |-> enabled]]
       /\ whatsappEnabled = enabled
       /\ whatsappService = [initialized |-> enabled]
  /\ emailService = [initialized |-> TRUE]
  /\ schedulerTask = TRUE
  /\ run = Return([IdleRun EXCEPT !.caller = "main"])
  /\ hist = NoHist
  /\ suspended = <<>>
  /\ arg = NoArg
  /\ ret = NoRet

NextOverlap ==
  \/ CronCallback
  \/ ResumeExecution
  \/ StartRecord
  \/ EmailAttempt
  \/ EmailDelay
  \/ WhatsAppPart
  \/ WhatsAppAttempt
  \/ WhatsAppDelay
  \/ Tally
  \/ Summary

SpecOverlap == InitOverlap /\ [][NextOverlap]_vars

\* ------------------------------------------------------------------------
\* Functions called on their own: the calls made of readBirthdays, parseDate,
\* isBirthdayToday, renderEmail and loadTemplate, and of validateRecord above
\* ------------------------------------------------------------------------
\* the tables of up to MaxRows + 1 rows over two rows that validate and
\* rows rejected for their name, their email and their birthday
ReadCalls ==
  LET rows ==
        {OverlapBoth, OverlapEmail,
         RawRow(Str(<<" ">>), Str(<<"a", "@", "b", ".", "c">>),
                Str(<<"1", "0", "/", "2", "5", "/", "1", "9", "9", "0">>), Null, Null),
         RawRow(Str(<<"A", "l">>), Str(<<"a", "@", "b">>),
                Str(<<"1", "0", "/", "2", "5", "/", "1", "9", "9", "0">>), Null, Null),
         RawRow(Str(<<"A", "l">>), Str(<<"a", "@", "b", ".", "c">>),
                Str(<<"0", "2", "/", "3", "0", "/", "2", "0", "0", "0">>),
                Str(ValidPhone), Null)}
  IN  [fn : {"readBirthdays"},
       rawData : UNION {[1..n -> rows] : n \in 0..(MaxRows + 1)}]

RECURSIVE Numeral(_)
Numeral(n) == IF n < 10 THEN <<Digits[n + 1]>>
              ELSE Numeral(n \div 10) \o <<Digits[(n % 10) + 1]>>

RECURSIVE PadStart(_, _)
PadStart(s, width) == IF Len(s) >= width THEN s ELSE PadStart(<<"0">> \o s, width)

\* the text of a date in one of the three formats, its month and day written
\* with two digits or as they are, its year with four digits
DateLiteral(format, year, month, day, padded) ==
  LET width == IF padded THEN 2 ELSE 1
      mm    == PadStart(Numeral(month), width)
      dd    == PadStart(Numeral(day), width)
      yyyy  == PadStart(Numeral(year), 4)
  IN  IF format = "MM/DD/YYYY" THEN mm \o <<"/">> \o dd \o <<"/">> \o yyyy
      ELSE IF format = "DD/MM/YYYY" THEN dd \o <<"/">> \o mm \o <<"/">> \o yyyy
      ELSE yyyy \o <<"-">> \o mm \o <<"-">> \o dd

\* date literals in the three formats, of dates and of what is no date
ParseCalls ==
  [fn : {"parseDate"}, format : {"MM/DD/YYYY", "DD/MM/YYYY", "YYYY-MM-DD"},
   year : {0, 50, 1900, 1990, 2000, 2023, 2024},
   month : {0, 1, 2, 3, 5, 12, 13, 28, 29, 30, 31, 32},
   day : {0, 1, 2, 3, 5, 12, 13, 28, 29, 30, 31, 32}, padded : BOOLEAN]

\* two dates of leap and other years, February 29 only where the year has one
MatchCalls ==
  LET dates == {[year |-> y, month |-> md[1], day |-> md[2]] :
                  y \in {1900, 1990, 2000, 2023, 2024},
                  md \in {<<1, 1>>, <<2, 28>>, <<2, 29>>, <<3, 1>>, <<10, 25>>, <<12, 31>>}}
                 \ {[year |-> y, month |-> 2, day |-> 29] : y \in {1900, 1990, 2023}}
  IN  [fn : {"isBirthdayToday"}, birthday : dates, today : dates]

\* ------------------------------------------------------------------------
\* TemplateEngine.  A text is a sequence of characters; the two emoji of the
\* default template and the grave accent are written by their code points,
\* one character each.
\* ------------------------------------------------------------------------
defaultTemplate ==
  [subject |->
      <<"H", "a", "p", "p", "y", " ", "B", "i", "r", "t", "h", "d", "a", "y", " ",
        "{", "{", "n", "a", "m", "e", "}", "}", "!", " ", "U+1F389">>,
   body |->
      <<"D", "e", "a", "r", " ", "{", "{", "n", "a", "m", "e", "}", "}", ",",
        "\n", "\n", "W", "i", "s", "h", "i", "n", "g", " ", "y", "o", "u", " ",
        "a", " ", "v", "e", "r", "y", " ", "H", "a", "p", "p", "y", " ", "B", "i",
        "r", "t", "h", "d", "a", "y", "!", " ", "U+1F382", "\n", "\n", "M", "a",
        "y", " ", "y", "o", "u", "r", " ", "d", "a", "y", " ", "b", "e", " ", "f",
        "i", "l", "l", "e", "d", " ", "w", "i", "t", "h", " ", "j", "o", "y", ",",
        " ", "l", "a", "u", "g", "h", "t", "e", "r", ",", " ", "a", "n", "d", " ",
        "w", "o", "n", "d", "e", "r", "f", "u", "l", " ", "m", "e", "m", "o", "r",
        "i", "e", "s", ".", "\n", "\n", "B", "e", "s", "t", " ", "w", "i", "s",
        "h", "e", "s", ",", "\n", "B", "i", "r", "t", "h", "d", "a", "y", " ",
        "N", "o", "t", "i", "f", "i", "c", "a", "t", "i", "o", "n", " ", "S", "y",
        "s", "t", "e", "m">>]

\* /\{\{name\}\}/
NamePlaceholder == <<"{", "{", "n", "a", "m", "e", "}", "}">>

\* text has pattern at position i
MatchesAt(text, i, pattern) ==
  /\ i + Len(pattern) - 1 <= Len(text)
  /\ SubSeq(text, i, i + Len(pattern) - 1) = pattern

\* String.prototype.replace with a string as replacement expands the
\* patterns of that string (GetSubstitution): $$ is a $, $& the matched
\* text, $ with a grave accent the text before the match, $' the text after
\* it; the regular
\* expression has no group, so $1..$99 and any other $ stay as written
RECURSIVE GetSubstitution(_, _, _, _)
GetSubstitution(matched, str, position, replacement) ==
  IF replacement = <<>> THEN <<>>
  ELSE IF Head(replacement) = "$" /\ Len(replacement) >= 2
            /\ replacement[2] \in {"$", "&", "U+0060", "'"}
  THEN LET rest == GetSubstitution(matched, str, position,
                                   SubSeq(replacement, 3, Len(replacement)))
       IN  IF replacement[2] = "$" THEN <<"$">> \o rest
           ELSE IF replacement[2] = "&" THEN matched \o rest
           ELSE IF replacement[2] = "U+0060" THEN SubSeq(str, 1, position - 1) \o rest
           ELSE SubSeq(str, position + Len(matched), Len(str)) \o rest
  ELSE <<Head(replacement)>>
         \o GetSubstitution(matched, str, position, Tail(replacement))

\* text.replace(/\{\{name\}\}/g, name): what position i of the text gives
\* to the result.  A match gives its replacement, the other characters of a
\* match nothing, any other character itself; two matches of this pattern
\* cannot overlap, and the replacement is not scanned again
ReplacedAt(text, i, name) ==
  IF MatchesAt(text, i, NamePlaceholder)
  THEN GetSubstitution(NamePlaceholder, text, i, name)
  ELSE IF \E m \in 1..(i - 1) : /\ m + Len(NamePlaceholder) > i
                                /\ MatchesAt(text, m, NamePlaceholder)
  THEN <<>>
  ELSE <<text[i]>>

\* the result for the positions lo..hi of the text, in their order
RECURSIVE ReplacedBetween(_, _, _, _)
ReplacedBetween(text, lo, hi, name) ==
  IF lo > hi THEN <<>>
  ELSE IF lo = hi THEN ReplacedAt(text, lo, name)
  ELSE LET mid == (lo + hi) \div 2
       IN  ReplacedBetween(text, lo, mid, name) \o ReplacedBetween(text, mid + 1, hi, name)

replaceVariables(text, data) == ReplacedBetween(text, 1, Len(text), data.name)

renderEmail(template, data) ==
  [subject |-> replaceVariables(template.subject, data),
   body    |-> replaceVariables(template.body, data)]

\* content.split('\n')
Lines(content) ==
  LET newlines == Positions(content, "\n")
      count    == Cardinality(newlines) + 1
      nth(k)   == CHOOSE p \in newlines : Cardinality({q \in newlines : q < p}) = k - 1
  IN  [k \in 1..count |->
         SubSeq(content,
                IF k = 1 THEN 1 ELSE nth(k - 1) + 1,
                IF k = count THEN Len(content) ELSE nth(k) - 1)]

StartsWith(text, prefix) ==
  Len(text) >= Len(prefix) /\ SubSeq(text, 1, Len(prefix)) = prefix

\* line.substring(line.indexOf(':') + 1).trim()
AfterColon(line) ==
  LET colon == CHOOSE p \in Positions(line, ":") : \A q \in Positions(line, ":") : p <= q
  IN  Trim(SubSeq(line, colon + 1, Len(line)))

\* one turn of the loop of parseTemplateContent, on line i (from 0)
ParseLine(st, line, i) ==
  IF StartsWith(ToLowerCase(Trim(line)), <<"s", "u", "b", "j", "e", "c", "t", ":">>)
  THEN [st EXCEPT !.subject = AfterColon(line)]
  ELSE IF StartsWith(ToLowerCase(Trim(line)), <<"b", "o", "d", "y", ":">>)
  THEN [st EXCEPT !.body = IF AfterColon(line) # <<>> THEN AfterColon(line) ELSE @,
                  !.inBody = TRUE, !.bodyStartIndex = i]
  ELSE IF st.subject # <<>> /\ ~st.inBody /\ Trim(line) = <<>>
  THEN [st EXCEPT !.inBody = TRUE, !.bodyStartIndex = i]
  ELSE IF st.inBody /\ i > st.bodyStartIndex
  THEN [st EXCEPT !.body = (IF @ # <<>> THEN @ \o <<"\n">> ELSE <<>>) \o line]
  ELSE st

RECURSIVE ParseLines(_, _, _)
ParseLines(lines, i, st) ==
  IF i >= Len(lines) THEN st
  ELSE ParseLines(lines, i + 1, ParseLine(st, lines[i + 1], i))

parseTemplateContent(content) ==
  LET st == ParseLines(Lines(content), 0,
                       [subject |-> <<>>, body |-> <<>>, inBody |-> FALSE,
                        bodyStartIndex |-> -1])
      body == IF st.subject = <<>> /\ st.body = <<>> THEN content ELSE st.body
  IN  [subject |-> IF st.subject # <<>> THEN st.subject ELSE defaultTemplate.subject,
       body    |-> IF body # <<>> THEN body ELSE defaultTemplate.body]

\* (text.match(/cc/g) || []).length for a brace c: the matches are taken from
\* the left and do not overlap, so a run of n braces holds n \div 2 of them
DoubleBraces(text, c) ==
  LET runStart(i) == CHOOSE j \in 1..i :
                       /\ \A k \in j..i : text[k] = c
                       /\ j = 1 \/ text[j - 1] # c
  IN  Cardinality({i \in 1..(Len(text) - 1) :
                     /\ text[i] = c /\ text[i + 1] = c
                     /\ (i - runStart(i)) % 2 = 0})

\* a match of /\{\{([^}]+)\}\}/ that starts at i ends with the first } after
\* i + 1, which must not come at once and must be followed by a second }
VariableEnd(text, i) ==
  LET closing == {p \in (i + 2)..Len(text) : text[p] = "}"}
      first   == CHOOSE p \in closing : \A q \in closing : p <= q
  IN  IF /\ i + 1 <= Len(text) /\ text[i] = "{" /\ text[i + 1] = "{"
         /\ closing # {} /\ first >= i + 3
         /\ first + 1 <= Len(text) /\ text[first + 1] = "}"
      THEN first + 1
      ELSE 0

\* text.match(/\{\{([^}]+)\}\}/g): the places of the matches, each the
\* leftmost that no earlier match covers
Variables(text) ==
  {i \in 1..Len(text) :
     /\ VariableEnd(text, i) # 0
     /\ \A j \in 1..(i - 1) : VariableEnd(text, j) < i}

\* validateText: the error it throws, or none
validateText(text) ==
  LET openBraces  == DoubleBraces(text, "{")
      closeBraces == DoubleBraces(text, "}")
  IN  IF openBraces # closeBraces THEN "unmatched braces"
      ELSE IF \/ Cardinality(Positions(text, "{")) # openBraces * 2
              \/ Cardinality(Positions(text, "}")) # closeBraces * 2
      THEN "malformed variable syntax"
      ELSE IF \E i \in Variables(text) :
                Trim(SubSeq(text, i + 2, VariableEnd(text, i) - 2)) = <<>>
      THEN "empty variable"
      ELSE "none"

validateTemplate(template) ==
  IF validateText(template.subject) # "none" THEN validateText(template.subject)
  ELSE validateText(template.body)

\* the try block of loadTemplate on a file as fs sees it: the template it
\* returns, or what it throws
TryLoad(file) ==
  IF ~file.exists THEN [threw |-> "none", template |-> defaultTemplate]
  ELSE IF ~file.readable THEN [threw |-> "readFileSync", template |-> <<>>]
  ELSE LET template == parseTemplateContent(file.content)
       IN  IF validateTemplate(template) # "none"
           THEN [threw |-> validateTemplate(template), template |-> <<>>]
           ELSE [threw |-> "none", template |-> template]

\* loadTemplate: no path, or the try block with its catch
loadTemplate(filePath, file) ==
  IF ~Truthy(filePath) THEN [threw |-> "none", template |-> defaultTemplate]
  ELSE IF TryLoad(file).threw # "none" THEN [threw |-> "none", template |-> defaultTemplate]
  ELSE TryLoad(file)

\* templates with and without placeholders, and names with and without $
RenderCalls ==
  LET templates ==
        {defaultTemplate,
         [subject |->
            <<"H", "i">>,
          body |->
            <<"B", "y", "e">>],
         [subject |->
            <<"{", "{", "n", "a", "m", "e", "}", "}", "{", "{", "n", "a", "m",
              "e", "}", "}">>,
          body |->
            <<"{", "{", "a", "g", "e", "}", "}", " ", "{", "{", " ", "n", "a",
              "m", "e", " ", "}", "}", " ", "{", "n", "a", "m", "e", "}">>],
         [subject |->
            <<"a", "{", "{", "n", "a", "m", "e", "}", "}", "b">>,
          body |->
            <<"{", "{", "n", "a", "m", "e", "}", "}">>],
         [subject |->
            <<"T", "o", " ", "{", "{", "n", "a", "m", "e", "}", "}">>,
          body |->
            <<"{", "{", "{", "{", "n", "a", "m", "e", "}", "}", "}", "}",
              "\n", "{", "{", "n", "a", "m", "e">>],
         [subject |->
            <<"$", "&", " ", "{", "{", "n", "a", "m", "e", "}", "}">>,
          body |->
            <<"D", "e", "a", "r", " ", "{", "{", "n", "a", "m", "e", "}", "}",
              ",", " ", "{", "{", "n", "a", "m", "e", "}", "}", "!">>]}
      names ==
        {<<"A", "l">>,
         <<"A", "l", " ", "B">>,
         <<"$", "&">>,
         <<"$", "$">>,
         <<"$", "'">>,
         <<"$", "U+0060">>,
         <<"$", "1">>,
         <<"A", "$">>,
         <<"{", "{", "n", "a", "m", "e", "}", "}">>,
         <<"$", "$", "&">>}
  IN  [fn : {"renderEmail"}, template : templates, name : names]

\* no path, an empty path and a path; no file, a file that cannot be read,
\* and files of a subject line and what follows it
LoadCalls ==
  LET subjectLines ==
        {<<>>,
         <<"S", "u", "b", "j", "e", "c", "t", ":", " ", "H", "i", " ", "{",
           "{", "n", "a", "m", "e", "}", "}">>,
         <<"s", "u", "b", "j", "e", "c", "t", ":", "H", "i", " ", "{", "{",
           "}", "}">>,
         <<" ", "S", "U", "B", "J", "E", "C", "T", ":", " ", "{", "{", " ",
           "}", "}", " ">>,
         <<"S", "u", "b", "j", "e", "c", "t", ":", " ", "{", "{", "n", "a",
           "m", "e">>}
      bodyLines ==
        {<<>>,
         <<"\n", "\n", "B", "y", "e", " ", "{", "{", "n", "a", "m", "e", "}",
           "}">>,
         <<"\n", "B", "o", "d", "y", ":", " ", "B", "y", "e", "\n", "}">>,
         <<"\n", "B", "o", "d", "y", ":", "\n", "D", "e", "a", "r", " ", "{",
           "{", "a", "g", "e", "}", "}">>,
         <<"\n", "\n", "{", "{", " ", "n", "a", "m", "e", " ", "}", "}", "\n",
           "{", "{", "}", "}">>}
  IN  [fn : {"loadTemplate"},
       filePath : {Null, Str(<<>>), Str(<<"t", ".", "t", "x", "t">>)},
       file : {[exists |-> FALSE, readable |-> FALSE, content |-> <<>>],
               [exists |-> TRUE, readable |-> FALSE, content |-> <<>>]} \cup
              {[exists |-> TRUE, readable |-> TRUE, content |-> s \o b] :
                 s \in subjectLines, b \in bodyLines}]

\* ------------------------------------------------------------------------
\* WhatsAppService and EmailService called on their own.  An error is a
\* record of its message and its code (and status); a transport answers a
\* request with ok or with an error.
\* ------------------------------------------------------------------------
\* (variant: the cut message ends in an ellipsis)
truncatedBodyWithEllipsis(body) ==
  IF Len(body) > 1600 THEN SubSeq(body, 1, 1597) \o <<".", ".", ".">> ELSE body

\* sendMessage: body.length > 1600 ? body.substring(0, 1600) : body
truncatedBody(body) ==
  IF Len(body) > 1600 THEN SubSeq(body, 1, 1600) ELSE body

\* sendMessage: the request handed to messages.create (none when the service
\* is not initialized) and the error thrown (none when the request resolves)
sendMessage(initialized, toPhone, body, answer) ==
  IF ~initialized
    THEN [created |-> <<>>,
          threw |-> <<[message |-> "WhatsApp service not initialized",
                       code |-> 0, status |-> 0]>>]
    ELSE LET errorCode == IF answer.error.code # 0 THEN answer.error.code
                          ELSE answer.error.status
             NewError(message) == [message |-> message, code |-> 0, status |-> 0]
         IN  [created |-> <<[to |-> <<"w", "h", "a", "t", "s", "a", "p", "p", ":">> \o toPhone,
                             body |-> truncatedBody(body)]>>,
              threw |->
                IF answer.ok THEN <<>>
                ELSE IF errorCode = 21211
                  THEN <<NewError("Invalid 'To' phone number")>>
                ELSE IF errorCode = 21408
                  THEN <<NewError("Permission denied: WhatsApp not enabled for this Twilio account")>>
                ELSE IF errorCode = 21610
                  THEN <<NewError("Message undeliverable")>>
                ELSE IF errorCode = 63007
                  THEN <<NewError("Recipient is not on WhatsApp")>>
                ELSE <<answer.error>>]

\* (variant: an error the service recognizes ends the loop at once)
RECURSIVE sendAttemptsUntilRecognized(_, _, _, _, _)
sendAttemptsUntilRecognized(phone, message, answers, attempt, sofar) ==
  IF attempt > maxRetries
    THEN [sofar EXCEPT !.outcome = "threw"]
    ELSE LET sent == sendMessage(TRUE, phone, message, answers[attempt])
             made == [sofar EXCEPT !.requests = @ \o sent.created]
         IN  IF sent.threw = <<>>
               THEN [made EXCEPT !.outcome = "resolved"]
             ELSE IF sent.threw[1] # answers[attempt].error
               THEN [made EXCEPT !.lastError = sent.threw, !.outcome = "threw"]
             ELSE sendAttemptsUntilRecognized(phone, message, answers, attempt + 1,
                    [made EXCEPT !.lastError = sent.threw,
                                 !.delays = IF backoffBeforeRetry(attempt)
                                              THEN Append(@, backoffDelayMs(attempt))
                                              ELSE @])

\* the for loop of sendBirthdayMessage from one attempt on: the requests
\* made, the delays awaited, lastError, and how the call settles
RECURSIVE sendAttempts(_, _, _, _, _)
sendAttempts(phone, message, answers, attempt, sofar) ==
  IF attempt > maxRetries
    THEN [sofar EXCEPT !.outcome = "threw"]
    ELSE LET sent == sendMessage(TRUE, phone, message, answers[attempt])
             made == [sofar EXCEPT !.requests = @ \o sent.created]
         IN  IF sent.threw = <<>>
               THEN [made EXCEPT !.outcome = "resolved"]
               ELSE sendAttempts(phone, message, answers, attempt + 1,
                      [made EXCEPT !.lastError = sent.threw,
                                   !.delays = IF backoffBeforeRetry(attempt)
                                                THEN Append(@, backoffDelayMs(attempt))
                                                ELSE @])

sendBirthdayMessage(initialized, recipient, message, answers) ==
  LET settled == [requests |-> <<>>, delays |-> <<>>, lastError |-> <<>>,
                  outcome |-> "threw"]
  IN  IF ~initialized
        THEN [settled EXCEPT !.lastError =
                <<[message |-> "WhatsApp service not initialized. Call initialize() first.",
                   code |-> 0, status |-> 0]>>]
      ELSE IF recipient.phone = <<>>
        THEN [settled EXCEPT !.lastError =
                <<[message |-> "Recipient phone number is required for WhatsApp notifications",
                   code |-> 0, status |-> 0]>>]
      ELSE sendAttempts(recipient.phone, message, answers, 1, settled)

\* WhatsAppService.testConnection: throws before the fetch when the service
\* is not initialized, else true or false as the fetch resolves or rejects
testConnectionWhatsApp(initialized, answer) ==
  IF ~initialized
    THEN [requests |-> 0, returned |-> <<>>,
          threw |-> <<"WhatsApp service not initialized. Call initialize() first.">>]
    ELSE [requests |-> 1, returned |-> <<answer.ok>>, threw |-> <<>>]

\* EmailService.sendEmail: the error thrown for the answer of sendMail
sendEmail(initialized, answer) ==
  IF ~initialized
    THEN [sent |-> 0, threw |-> <<[message |-> "Email service not initialized", code |-> ""]>>]
    ELSE [sent |-> 1,
          threw |->
            IF answer.ok THEN <<>>
            ELSE IF answer.error.code = "EAUTH"
              THEN <<[message |-> "SMTP authentication failed. Check credentials.", code |-> ""]>>
            ELSE IF answer.error.code \in {"ETIMEDOUT", "ECONNECTION"}
              THEN <<[message |-> "SMTP connection timeout or network error.", code |-> ""]>>
            ELSE IF answer.error.code = "EENVELOPE"
              THEN <<[message |-> "Invalid email address format.", code |-> ""]>>
            ELSE <<answer.error>>]

\* EmailService.sendBirthdayEmail: one send, and after a failure the delay
\* and one more send whose error is the one thrown
sendBirthdayEmail(initialized, answers) ==
  IF ~initialized
    THEN [requests |-> 0, delays |-> <<>>, outcome |-> "threw",
          lastError |-> <<[message |-> "Email service not initialized. Call initialize() first.",
                           code |-> ""]>>]
    ELSE LET first == sendEmail(TRUE, answers[1])
             retry == sendEmail(TRUE, answers[2])
         IN  IF first.threw = <<>>
               THEN [requests |-> first.sent, delays |-> <<>>, outcome |-> "resolved",
                     lastError |-> <<>>]
               ELSE [requests |-> first.sent + retry.sent, delays |-> <<retryDelayMs>>,
                     outcome |-> IF retry.threw = <<>> THEN "resolved" ELSE "threw",
                     lastError |-> retry.threw]

\* (variant: an uninitialized service reports a failed connection test)
testConnectionEmailReturnsFalse(initialized, answer) ==
  [requests |-> IF initialized THEN 1 ELSE 0,
   returned |-> <<initialized /\ answer.ok>>, threw |-> <<>>]

\* EmailService.testConnection
testConnectionEmail(initialized, answer) ==
  IF ~initialized
    THEN [requests |-> 0, returned |-> <<>>,
          threw |-> <<"Email service not initialized. Call initialize() first.">>]
    ELSE [requests |-> 1, returned |-> <<answer.ok>>, threw |-> <<>>]

\* the calls made: a service initialized or not, a recipient with or without
\* a phone, a message of some length around the limit, and the answers of
\* the transport to the successive requests
ServiceCalls ==
  LET Ok(error) == [ok |-> TRUE, error |-> error]
      Twilio(code, status) ==
        [ok |-> FALSE,
         error |-> [message |-> "Twilio", code |-> code, status |-> status]]
      Smtp(code) == [ok |-> FALSE, error |-> [message |-> "SMTP", code |-> code]]
      twilioAnswers == {Ok([message |-> "", code |-> 0, status |-> 0]),
                        Twilio(21211, 400), Twilio(21408, 403), Twilio(21610, 400),
                        Twilio(63007, 400), Twilio(20003, 401), Twilio(0, 503)}
      smtpAnswers == {Ok([message |-> "", code |-> ""]), Smtp("EAUTH"), Smtp("ETIMEDOUT"),
                      Smtp("ECONNECTION"), Smtp("EENVELOPE"), Smtp("ESOCKET"), Smtp("")}
  IN  [fn : {"sendBirthdayMessage"}, initialized : BOOLEAN,
       phone : {<<>>, <<"+", "1", "5", "5", "5">>},
       length : {0, 1599, 1600, 1601, 1700},
       answers : [1..maxRetries -> twilioAnswers]]
      \cup [fn : {"sendBirthdayEmail"}, initialized : BOOLEAN,
            answers : [1..2 -> smtpAnswers]]
      \cup [fn : {"testConnection"}, service : {"whatsapp"}, initialized : BOOLEAN,
            answer : twilioAnswers]
      \cup [fn : {"testConnection"}, service : {"email"}, initialized : BOOLEAN,
            answer : smtpAnswers]

\* ------------------------------------------------------------------------
\* Scheduler called on its own.  A scheduler is its field task (0 for null,
\* else the number of the cron task) with the cron tasks that node-cron has
\* scheduled and not stopped, the number of tasks created so far, and the
\* numbers of callbacks run and of errors logged.
\* ------------------------------------------------------------------------
MaxCalls == 4

NewScheduler == [task |-> 0, scheduled |-> {}, created |-> 0, run |-> 0, logged |-> 0]

isRunning(scheduler) == scheduler.task # 0

stop(scheduler) ==
  IF scheduler.task # 0
    THEN [scheduler EXCEPT !.scheduled = @ \ {scheduler.task}, !.task = 0]
    ELSE scheduler

\* (variant: the task of a running scheduler is left scheduled)
startWithoutStop(scheduler, scheduleThrows) ==
  IF scheduleThrows THEN [scheduler EXCEPT !.logged = @ + 1]
  ELSE [scheduler EXCEPT !.task = scheduler.created + 1,
                         !.scheduled = @ \cup {scheduler.created + 1},
                         !.created = @ + 1]

\* start: the task there is is stopped, then cron.schedule makes the new
\* one; an error of cron.schedule is logged and rethrown
start(scheduler, scheduleThrows) ==
  LET stopped == IF scheduler.task # 0 THEN stop(scheduler) ELSE scheduler
  IN  IF scheduleThrows THEN [stopped EXCEPT !.logged = @ + 1]
      ELSE [stopped EXCEPT !.task = stopped.created + 1,
                           !.scheduled = @ \cup {stopped.created + 1},
                           !.created = @ + 1]

\* the cron expression comes round: every scheduled task runs the function
\* start gave it, which awaits the callback and logs what it throws
tick(scheduler, callbackThrows) ==
  [scheduler EXCEPT !.run = @ + Cardinality(scheduler.scheduled),
                    !.logged = @ + (IF callbackThrows
                                      THEN Cardinality(scheduler.scheduled) ELSE 0)]

\* the schedulers a sequence of calls goes through, the new one first
RECURSIVE SchedulerAfter(_)
SchedulerAfter(calls) ==
  IF calls = <<>> THEN <<NewScheduler>>
  ELSE LET before == SchedulerAfter(SubSeq(calls, 1, Len(calls) - 1))
           scheduler == before[Len(before)]
           call == calls[Len(calls)]
       IN  Append(before,
                  CASE call = "start" -> start(scheduler, FALSE)
                    [] call = "start, cron.schedule throws" -> start(scheduler, TRUE)
                    [] call = "stop" -> stop(scheduler)
                    [] call = "tick" -> tick(scheduler, FALSE)
                    [] call = "tick, callback throws" -> tick(scheduler, TRUE))

\* the sequences of up to MaxCalls calls
SchedulerCalls ==
  [fn : {"Scheduler"},
   calls : UNION {[1..n -> {"start", "start, cron.schedule throws", "stop", "tick",
                            "tick, callback throws"}] : n \in 0..MaxCalls}]

InitUnit ==
  /\ NotStarted
  /\ arg \in [fn : {"validateRecord"}, record : UnitRows, rowNumber : 2..(MaxRows + 1)]
               \cup ReadCalls \cup ParseCalls \cup MatchCalls \cup RenderCalls \cup LoadCalls
               \cup ServiceCalls \cup SchedulerCalls
  /\ ret = NoRet

CallReadBirthdays ==
  /\ ~ret.done
  /\ arg.fn = "readBirthdays"
  /\ ret' = [done |-> TRUE, value |-> readBirthdays(arg.rawData)]
  /\ UNCHANGED <<main, config, whatsappEnabled, emailService, whatsappService,
                 schedulerTask, run, hist, suspended, arg>>

CallParseDate ==
  /\ ~ret.done
  /\ arg.fn = "parseDate"
  /\ ret' = [done |-> TRUE,
             value |-> parseDate(Str(DateLiteral(arg.format, arg.year, arg.month,
                                                 arg.day, arg.padded)))]
  /\ UNCHANGED <<main, config, whatsappEnabled, emailService, whatsappService,
                 schedulerTask, run, hist, suspended, arg>>

CallIsBirthdayToday ==
  /\ ~ret.done
  /\ arg.fn = "isBirthdayToday"
  /\ ret' = [done |-> TRUE,
             value |-> isBirthdayToday(
                         NewDate(arg.birthday.year, arg.birthday.month - 1, arg.birthday.day),
                         NewDate(arg.today.year, arg.today.month - 1, arg.today.day))]
  /\ UNCHANGED <<main, config, whatsappEnabled, emailService, whatsappService,
                 schedulerTask, run, hist, suspended, arg>>

CallRenderEmail ==
  /\ ~ret.done
  /\ arg.fn = "renderEmail"
  /\ ret' = [done |-> TRUE, value |-> renderEmail(arg.template, [name |-> arg.name])]
  /\ UNCHANGED <<main, config, whatsappEnabled, emailService, whatsappService,
                 schedulerTask, run, hist, suspended, arg>>

CallLoadTemplate ==
  /\ ~ret.done
  /\ arg.fn = "loadTemplate"
  /\ ret' = [done |-> TRUE, value |-> loadTemplate(arg.filePath, arg.file)]
  /\ UNCHANGED <<main, config, whatsappEnabled, emailService, whatsappService,
                 schedulerTask, run, hist, suspended, arg>>

\* the message of a call: the digits 1, 2, ..., 9, 0, 1, ... up to its length
CallSendBirthdayMessage ==
  /\ ~ret.done
  /\ arg.fn = "sendBirthdayMessage"
  /\ ret' = [done |-> TRUE,
             value |-> sendBirthdayMessage(arg.initialized, [phone |-> arg.phone],
                         [i \in 1..arg.length |-> Digits[(i % 10) + 1]], arg.answers)]
  /\ UNCHANGED <<main, config, whatsappEnabled, emailService, whatsappService,
                 schedulerTask, run, hist, suspended, arg>>

CallSendBirthdayEmail ==
  /\ ~ret.done
  /\ arg.fn = "sendBirthdayEmail"
  /\ ret' = [done |-> TRUE, value |-> sendBirthdayEmail(arg.initialized, arg.answers)]
  /\ UNCHANGED <<main, config, whatsappEnabled, emailService, whatsappService,
                 schedulerTask, run, hist, suspended, arg>>

CallTestConnection ==
  /\ ~ret.done
  /\ arg.fn = "testConnection"
  /\ ret' = [done |-> TRUE,
             value |-> IF arg.service = "email"
                         THEN testConnectionEmail(arg.initialized, arg.answer)
                         ELSE testConnectionWhatsApp(arg.initialized, arg.answer)]
  /\ UNCHANGED <<main, config, whatsappEnabled, emailService, whatsappService,
                 schedulerTask, run, hist, suspended, arg>>

CallScheduler ==
  /\ ~ret.done
  /\ arg.fn = "Scheduler"
  /\ ret' = [done |-> TRUE, value |-> SchedulerAfter(arg.calls)]
  /\ UNCHANGED <<main, config, whatsappEnabled, emailService, whatsappService,
                 schedulerTask, run, hist, suspended, arg>>

NextUnit ==
  \/ CallValidateRecord
  \/ CallReadBirthdays
  \/ CallParseDate
  \/ CallIsBirthdayToday
  \/ CallRenderEmail
  \/ CallLoadTemplate
  \/ CallSendBirthdayMessage
  \/ CallSendBirthdayEmail
  \/ CallTestConnection
  \/ CallScheduler

SpecUnit == InitUnit /\ [][NextUnit]_vars

\* ------------------------------------------------------------------------
\* Properties
\* ------------------------------------------------------------------------
\* the deliveries asked so far, and those of one channel
Calls == {hist.calls[k] : k \in 1..Len(hist.calls)}
CallsOn(channel) == {c \in Calls : c.channel = channel}

Processed == {hist.processed[k] : k \in 1..Len(hist.processed)}

\* a phone number in E.164 form: +, a country code not starting with 0, at
\* most 15 digits in all
IsE164(phone) ==
  /\ Len(phone) >= 2 /\ Len(phone) <= 16
  /\ phone[1] = "+"
  /\ AllDigits(Tail(phone))
  /\ phone[2] # "0"

\* C1: for a processed recipient whose channel is 'both', with WhatsApp
\* enabled, a delivery that ended in a terminal failure on one channel goes
\* with a delivery attempted on the other channel for the same recipient.
C1_ChannelsIndependent ==
  \A c \in Calls :
    ( /\ whatsappEnabled
      /\ c.record.notificationChannel = BOTH
      /\ c.outcome = "threw"
      /\ c.record.rowNumber \in Processed )
    => \E d \in Calls : /\ d.record = c.record
                        /\ d.channel # c.channel
                        /\ Len(d.attempts) >= 1

\* a 'both' recipient whose email delivery and whose WhatsApp delivery both
\* ended in a terminal failure
C1_Witness ==
  \E c \in CallsOn("email"), d \in CallsOn("whatsapp") :
    /\ c.record = d.record
    /\ c.record.notificationChannel = BOTH
    /\ c.outcome = "threw" /\ d.outcome = "threw"
    /\ c.record.rowNumber \in Processed

\* C2: the recipients processed so far are the matched recipients before the
\* current one, in order, and when the run with matches is over every matched
\* recipient has been processed, whatever the deliveries did.
C2_EveryRecipientProcessed ==
  Len(run.todaysBirthdays) > 0 =>
    /\ run.pc # "idle" /\ run.idx > 0 =>
         hist.processed = [k \in 1..(run.idx - 1) |-> run.todaysBirthdays[k].rowNumber]
    /\ run.pc = "idle" =>
         hist.processed = [k \in 1..Len(run.todaysBirthdays) |->
                             run.todaysBirthdays[k].rowNumber]

\* a finished run of two matched recipients where every delivery of the
\* first recipient ended in a terminal failure
C2_Witness ==
  /\ run.pc = "idle"
  /\ Len(run.todaysBirthdays) >= 2
  /\ Len(hist.processed) = Len(run.todaysBirthdays)
  /\ \E c \in Calls : c.record = run.todaysBirthdays[1]
  /\ \A c \in Calls : c.record = run.todaysBirthdays[1] => c.outcome = "threw"

\* C3: a run throws only the error of the source reader; a run whose source
\* was read returns normally, whatever its deliveries did.
C3_ThrowsOnlyOnSource ==
  /\ run.result = "threw" => run.error \in SourceErrors /\ hist.sourceError = run.error
  /\ (run.pc = "idle" /\ run.caller # "none" /\ hist.sourceError = "none")
       => run.result = "returned"

\* a run that returned although every one of its deliveries failed, on both
\* channels
C3_Witness ==
  /\ run.pc = "idle" /\ run.result = "returned"
  /\ CallsOn("email") # {} /\ CallsOn("whatsapp") # {}
  /\ \A c \in Calls : c.outcome = "threw"

\* C4: a run whose source could not be read is over, has thrown that error,
\* and has loaded no template, asked no delivery and logged no summary.
C4_SourceFailureAborts ==
  hist.sourceError # "none" =>
    /\ run.pc = "idle" /\ run.result = "threw" /\ run.error = hist.sourceError
    /\ run.templates = 0
    /\ hist.calls = <<>>
    /\ hist.processed = <<>>
    /\ hist.summaries = <<>>

\* a scheduled run that failed to read the source
C4_Witness ==
  /\ hist.sourceError = "Failed to read Excel file"
  /\ run.caller = "cron"

C6_MessagingOnlyToValidPhones ==
  /\ \A c \in CallsOn("whatsapp") : IsE164(c.record.phone)
  /\ \A k \in 1..Len(run.validRecords) :
       ~IsE164(run.validRecords[k].phone) =>
         \A c \in CallsOn("whatsapp") : c.record.rowNumber # run.validRecords[k].rowNumber

\* a run that sent to WhatsApp and also processed a recipient whose phone is
\* present and not in E.164 form
C6_Witness ==
  /\ \E c \in CallsOn("whatsapp") : Len(c.attempts) >= 1
  /\ \E k \in 1..Len(run.todaysBirthdays) :
       /\ run.todaysBirthdays[k].phone # <<>>
       /\ ~IsE164(run.todaysBirthdays[k].phone)
       /\ run.todaysBirthdays[k].rowNumber \in Processed

\* the Phone and NotificationChannel cells of the row given to validateRecord
ArgPhone == OrElse(arg.record.Phone, arg.record.phone)
ArgPhoneText == IF ArgPhone.t = "str" THEN Trim(ArgPhone.s) ELSE <<>>
ArgChannel == normalizeChannel(OrElse(arg.record.NotificationChannel,
                                      arg.record.notificationChannel))

\* C7: a row that validateRecord accepts, whose channel normalizes to
\* 'whatsapp' or 'both' and whose phone is missing, empty or not in E.164
\* form, gets channel 'email'; every accepted record with channel 'whatsapp'
\* or 'both' has a phone in E.164 form.
C7_ChannelFallback ==
  (ret.done /\ arg.fn = "validateRecord" /\ ret.value # NullRecord) =>
    /\ ((ArgChannel = WHATSAPP \/ ArgChannel = BOTH) /\ ~IsE164(ArgPhoneText))
         => ret.value.notificationChannel = EMAIL
    /\ (ret.value.notificationChannel = WHATSAPP \/ ret.value.notificationChannel = BOTH)
         => IsE164(ret.value.phone)

\* an accepted row that asks for WhatsApp with a number that is valid but
\* written with a space: it falls back to email
C7_Witness ==
  /\ ret.done /\ arg.fn = "validateRecord" /\ ret.value # NullRecord
  /\ ArgChannel = WHATSAPP
  /\ ArgPhoneText = SpacedPhone
  /\ ret.value.notificationChannel = EMAIL

\* C8: a settled email delivery made one transport attempt that succeeded,
\* or a failed attempt, the retry delay and a second attempt whose outcome
\* is the outcome of the delivery; a delivery in progress has made no
\* attempt, or one failed attempt.
C8_EmailOneRetry ==
  \A c \in CallsOn("email") :
    \/ c.outcome = "pending" /\ c.attempts = <<>> /\ c.delays = <<>>
    \/ c.outcome = "pending" /\ c.attempts = <<FALSE>> /\ Len(c.delays) <= 1
    \/ c.outcome = "resolved" /\ c.attempts = <<TRUE>> /\ c.delays = <<>>
    \/ c.outcome = "resolved" /\ c.attempts = <<FALSE, TRUE>> /\ c.delays = <<retryDelayMs>>
    \/ c.outcome = "threw" /\ c.attempts = <<FALSE, FALSE>> /\ c.delays = <<retryDelayMs>>

\* a run with an email delivery that succeeded on the retry and one whose
\* retry failed
C8_Witness ==
  /\ \E c \in CallsOn("email") : c.outcome = "resolved" /\ c.attempts = <<FALSE, TRUE>>
  /\ \E c \in CallsOn("email") : c.outcome = "threw" /\ c.attempts = <<FALSE, FALSE>>

\* C9: a WhatsApp delivery makes at most three transport attempts; it
\* resolves at its first successful attempt, and it throws only after three
\* failed attempts.
C9_WhatsAppThreeAttempts ==
  \A c \in CallsOn("whatsapp") :
    /\ Len(c.attempts) <= 3
    /\ \A k \in 1..(Len(c.attempts) - 1) : ~c.attempts[k]
    /\ c.outcome = "pending" => \A k \in 1..Len(c.attempts) : ~c.attempts[k]
    /\ c.outcome = "resolved" => c.attempts # <<>> /\ c.attempts[Len(c.attempts)]
    /\ c.outcome = "threw" => c.attempts = <<FALSE, FALSE, FALSE>>

\* a run with a WhatsApp delivery that succeeded at the third attempt and one
\* that failed three times
C9_Witness ==
  /\ \E c \in CallsOn("whatsapp") : c.outcome = "resolved" /\ c.attempts = <<FALSE, FALSE, TRUE>>
  /\ \E c \in CallsOn("whatsapp") : c.outcome = "threw" /\ c.attempts = <<FALSE, FALSE, FALSE>>

\* C10: a WhatsApp delivery whose three attempts failed has waited 1s, 2s
\* and 4s, in that order, when the failure is thrown.
C10_BackoffDelays ==
  \A c \in CallsOn("whatsapp") :
    (c.outcome = "threw" /\ Len(c.attempts) = 3) => c.delays = <<1000, 2000, 4000>>

\* the delivery asked last, and whether it is still in progress
LastCall == hist.calls[Len(hist.calls)]
DeliveryPending == hist.calls # <<>> /\ LastCall.outcome = "pending"
DeliverySettled == hist.calls # <<>> /\ LastCall.outcome \in {"resolved", "threw"}

\* C11: when every transport call and every delay returns, a delivery that
\* was asked of EmailService or WhatsAppService ends: it resolves or it
\* throws its terminal failure.
C11_DeliveriesTerminate == DeliveryPending ~> DeliverySettled

\* an email delivery and a WhatsApp delivery that each used every attempt
\* they have and ended
C11_Witness ==
  /\ DeliverySettled
  /\ \E c \in CallsOn("email") : Len(c.attempts) = 2 /\ c.outcome # "pending"
  /\ \E c \in CallsOn("whatsapp") : Len(c.attempts) = maxRetries /\ c.outcome # "pending"
  /\ run.pc = "idle"

\* the number of deliveries asked on a channel that ended with an outcome
Deliveries(channel, outcomes) ==
  Cardinality({k \in 1..Len(hist.calls) :
                 hist.calls[k].channel = channel /\ hist.calls[k].outcome \in outcomes})

\* C12: the counters of a summary are the deliveries of the run: on each
\* channel, sent is the number of deliveries that resolved (at the first
\* attempt or at a retry), failed is the number that threw their terminal
\* failure, and sent + failed is the number of deliveries asked.
C12_StatisticsCountDeliveries ==
  \A k \in 1..Len(hist.summaries) :
    LET s == hist.summaries[k]
    IN  /\ s.emailsSent = Deliveries("email", {"resolved"})
        /\ s.emailsFailed = Deliveries("email", {"threw"})
        /\ s.emailsSent + s.emailsFailed = Deliveries("email", {"resolved", "threw", "pending"})
        /\ s.whatsappSent = Deliveries("whatsapp", {"resolved"})
        /\ s.whatsappFailed = Deliveries("whatsapp", {"threw"})
        /\ s.whatsappSent + s.whatsappFailed
             = Deliveries("whatsapp", {"resolved", "threw", "pending"})

\* a summary of a run with an email delivery that succeeded on the retry, a
\* WhatsApp delivery that failed three times and a recipient with no email
C12_Witness ==
  /\ hist.summaries # <<>>
  /\ \E c \in CallsOn("email") : c.attempts = <<FALSE, TRUE>>
  /\ \E c \in CallsOn("whatsapp") : c.attempts = <<FALSE, FALSE, FALSE>>
  /\ \E k \in 1..Len(run.todaysBirthdays) :
       run.todaysBirthdays[k].notificationChannel = WHATSAPP

\* the deliveries asked on a channel for a recipient that have ended
SettledFor(channel, record) ==
  {c \in CallsOn(channel) : c.record = record /\ c.outcome \in {"resolved", "threw"}}

\* C13: a run logs at most one summary event; a run with a match that has
\* returned has logged exactly one; and when the summary has been logged no
\* delivery is in progress, every matched recipient has been processed and
\* each of them has an ended delivery on every channel it was to get.
C13_OneSummaryAfterDeliveries ==
  /\ Len(hist.summaries) <= 1
  /\ (run.pc = "idle" /\ run.result = "returned" /\ Len(run.todaysBirthdays) > 0)
       => Len(hist.summaries) = 1
  /\ hist.summaries # <<>> =>
       /\ Len(run.todaysBirthdays) > 0
       /\ \A c \in Calls : c.outcome # "pending"
       /\ Len(hist.processed) = Len(run.todaysBirthdays)
       /\ \A k \in 1..Len(run.todaysBirthdays) :
            LET record == run.todaysBirthdays[k]
            IN  /\ wantsEmail(record) => SettledFor("email", record) # {}
                /\ wantsWhatsApp(record, whatsappEnabled)
                     => SettledFor("whatsapp", record) # {}

\* the summary of a run with two matched recipients, the second of them on
\* both channels, whose deliveries all went through a retry
C13_Witness ==
  /\ Len(hist.summaries) = 1
  /\ Len(run.todaysBirthdays) = 2
  /\ run.todaysBirthdays[2].notificationChannel = BOTH
  /\ SettledFor("whatsapp", run.todaysBirthdays[2]) # {}
  /\ \A c \in Calls : Len(c.attempts) >= 2

\* the phase of a run: reading the source (the validation loop included),
\* loading the templates once the matching is done, dispatching
Phase(pc) ==
  CASE pc = "idle" -> "Idle"
    [] pc \in {"reading", "validating"} -> "ReadingSource"
    [] pc = "templates" -> "Rendering"
    [] OTHER -> "Dispatching"

\* the steps from phase to phase; the matching is the step that leaves
\* ReadingSource for Rendering, or for Idle when nothing matches
PhaseSteps ==
  {<<"Idle", "Idle">>, <<"Idle", "ReadingSource">>, <<"ReadingSource", "ReadingSource">>,
   <<"ReadingSource", "Idle">>, <<"ReadingSource", "Rendering">>,
   <<"Rendering", "Dispatching">>, <<"Dispatching", "Dispatching">>,
   <<"Dispatching", "Idle">>}

PhaseStep == (<<Phase(run.pc), Phase(run'.pc)>>) \in PhaseSteps

InProgress == Len(suspended) + (IF run.pc = "idle" THEN 0 ELSE 1)

\* C15: at most one execution of checkAndNotify is in progress at any time.
C15_NoOverlap == InProgress <= 1

\* C16: a run that could not read the source does not end the process: the
\* process has not exited, and once main() is past the immediate check the
\* scheduled task is installed to trigger the next check.
C16_SourceFailureKeepsRunning ==
  (run.pc = "idle" /\ hist.sourceError # "none") =>
    /\ main.pc # "exited"
    /\ main.pc = "serving" => schedulerTask

\* how far main() has come
PcRank(pc) ==
  CASE pc = "loadConfig" -> 1
    [] pc = "initEmail" -> 2
    [] pc = "testEmail" -> 3
    [] pc = "initWhatsApp" -> 4
    [] pc = "testWhatsApp" -> 5
    [] pc = "startupCheck" -> 6
    [] pc = "awaitCheck" -> 7
    [] pc = "serving" -> 8
    [] pc = "exited" -> 9

\* a call of checkAndNotify by main() is the step of main() from the
\* immediate check to awaiting it, and main() never steps back
ImmediateCheckStep ==
  /\ PcRank(main'.pc) >= PcRank(main.pc)
  /\ (run'.caller = "main" /\ run.pc = "idle" /\ run'.pc # "idle")
       => (main.pc = "startupCheck" /\ main'.pc = "awaitCheck")
  /\ (main.pc = "startupCheck" /\ main'.pc # "startupCheck")
       => (run'.caller = "main" /\ run'.pc = "reading")

\* C17: main() calls checkAndNotify once, after the email connection test
\* has passed and before the scheduler is started; the scheduled task is
\* installed only when that check has returned, and only then do scheduled
\* checks run.
C17_ImmediateCheckThenScheduler ==
  /\ [][ImmediateCheckStep]_vars
  /\ [](PcRank(main.pc) <= 6 => run.caller = "none" /\ ~schedulerTask)
  /\ [](run.caller = "main" => main.connectionSuccess /\ emailService.initialized)
  /\ [](main.pc = "awaitCheck" => run.caller = "main" /\ ~schedulerTask)
  /\ [](schedulerTask =>
          /\ main.pc = "serving"
          /\ run.caller = "main" => run.pc = "idle" /\ run.result = "returned")
  /\ [](run.caller = "cron" => schedulerTask)

\* the scheduler has been started after an immediate check that delivered
C17_Witness ==
  /\ main.pc = "serving" /\ schedulerTask
  /\ run.caller = "main"
  /\ hist.summaries # <<>>

\* C18: when a required variable is missing or the email connection test
\* fails, main() exits with code 1 at that step: no check has been or will
\* be run, no delivery asked and no scheduled task installed; and main()
\* gets past those steps only with the configuration loaded and the test
\* passed.
C18_EmailStartupFailureAborts ==
  /\ (~config.loaded \/ ~main.connectionSuccess) =>
       /\ run = IdleRun /\ hist = NoHist
       /\ ~schedulerTask
       /\ PcRank(main.pc) <= 3 \/ main.pc = "exited"
  /\ (main.pc = "exited" /\ (~config.loaded \/ ~main.connectionSuccess))
       => main.exitCode = 1
  /\ (PcRank(main.pc) >= 2 /\ main.pc # "exited") => config.loaded
  /\ (PcRank(main.pc) >= 4 /\ main.pc # "exited") => main.connectionSuccess

\* main() has exited because the email connection test failed
C18_Witness ==
  /\ main.pc = "exited" /\ main.exitCode = 1
  /\ config.loaded /\ emailService.initialized
  /\ ~main.connectionSuccess

\* C19: the configuration loads whenever the three required variables are
\* set, with WhatsApp enabled exactly when the three Twilio variables are
\* set; with one of them missing the startup goes on as far as the email
\* service and the source let it, WhatsAppService is neither initialized nor
\* asked for a delivery, and every processed recipient whose channel asks
\* for email has its email delivery.
C19_MissingTwilioDisablesWhatsAppOnly ==
  LET required == RequiredVars \subseteq arg.env
      twilio == TwilioVars \subseteq arg.env
  IN  /\ PcRank(main.pc) \in 2..8 => required /\ config.loaded
      /\ main.pc = "initEmail" => config.whatsapp.enabled = twilio
      /\ config.loaded => whatsappEnabled = twilio
      /\ (required /\ ~twilio) =>
           /\ main.pc # "loadConfig" => config.loaded /\ ~config.whatsapp.enabled
           /\ ~whatsappService.initialized
           /\ CallsOn("whatsapp") = {}
           /\ main.pc = "exited" => ~main.connectionSuccess \/ run.result = "threw"
           /\ \A k \in 1..Len(run.todaysBirthdays) :
                LET record == run.todaysBirthdays[k]
                IN  (record.rowNumber \in Processed /\ wantsEmail(record))
                      => SettledFor("email", record) # {}

\* with TWILIO_AUTH_TOKEN alone missing, a recipient on both channels with a
\* valid phone was processed: the email was sent, nothing went to WhatsApp
C19_Witness ==
  /\ TwilioVars \ arg.env = {"TWILIO_AUTH_TOKEN"}
  /\ \E c \in CallsOn("email") :
       /\ c.outcome = "resolved"
       /\ c.record.notificationChannel = BOTH
       /\ c.record.rowNumber \in Processed
  /\ CallsOn("whatsapp") = {}

\* the number of deliveries asked on a channel for a recipient
CallCount(channel, record) ==
  Cardinality({k \in 1..Len(hist.calls) :
                 hist.calls[k].channel = channel /\ hist.calls[k].record = record})

\* C20: in a run, a recipient whose channel is 'email' is asked at most one
\* email delivery, exactly one once it is processed, and no WhatsApp
\* delivery; a recipient whose channel is 'whatsapp' is asked no email
\* delivery and at most one WhatsApp delivery.
C20_ChannelRouting ==
  \A k \in 1..Len(run.todaysBirthdays) :
    LET record == run.todaysBirthdays[k]
    IN  /\ record.notificationChannel = EMAIL =>
             /\ CallCount("email", record) <= 1
             /\ record.rowNumber \in Processed => CallCount("email", record) = 1
             /\ CallCount("whatsapp", record) = 0
        /\ record.notificationChannel = WHATSAPP =>
             /\ CallCount("email", record) = 0
             /\ CallCount("whatsapp", record) <= 1

\* with WhatsApp enabled, a processed 'email' recipient who has a valid
\* phone and a processed 'whatsapp' recipient
C20_Witness ==
  /\ whatsappEnabled
  /\ \E j, k \in 1..Len(run.todaysBirthdays) :
       /\ run.todaysBirthdays[j].notificationChannel = EMAIL
       /\ IsE164(run.todaysBirthdays[j].phone)
       /\ run.todaysBirthdays[k].notificationChannel = WHATSAPP
       /\ CallCount("whatsapp", run.todaysBirthdays[k]) = 1
       /\ {run.todaysBirthdays[j].rowNumber, run.todaysBirthdays[k].rowNumber}
            \subseteq Processed


\* C21: readBirthdays returns the rows that validate and no other, in the
\* order of the table, each with rowNumber = its zero-based index + 2 and
\* with the fields validateRecord gives that row alone; a rejected row
\* changes nothing of the rows after it.
C21_RejectedRowsAreSkipped ==
  (ret.done /\ arg.fn = "readBirthdays") =>
    LET rawData == arg.rawData
        validIndexes == {i \in 0..(Len(rawData) - 1) :
                           validateRecord(rawData[i + 1], i + 2) # NullRecord}
        records == ret.value
    IN  /\ Len(records) = Cardinality(validIndexes)
        /\ \A k \in 1..Len(records) :
             /\ records[k].rowNumber - 2 \in validIndexes
             /\ records[k] = validateRecord(rawData[records[k].rowNumber - 1],
                                            records[k].rowNumber)
             /\ \A j \in 1..(k - 1) : records[j].rowNumber < records[k].rowNumber

\* a table whose first row is rejected and whose later rows validate
C21_Witness ==
  /\ ret.done /\ arg.fn = "readBirthdays"
  /\ Len(arg.rawData) = 3
  /\ validateRecord(arg.rawData[1], 2) = NullRecord
  /\ Len(ret.value) = 2
  /\ ret.value[1].rowNumber = 3 /\ ret.value[2].rowNumber = 4


\* the cell read under a header, capitalised or not
Field(record, header) ==
  IF header = "name" THEN OrElse(record.Name, record.name)
  ELSE IF header = "email" THEN OrElse(record.Email, record.email)
  ELSE OrElse(record.Birthday, record.birthday)

\* an empty cell or an empty text; a text of white space only
IsMissing(cell) == cell = Null \/ cell = Str(<<>>)
IsBlank(cell) == cell.t = "str" /\ \A i \in 1..Len(cell.s) : IsSpace(cell.s[i])

\* local@domain.tld: one @, no white space, a local part, and after the @ a
\* dot with text on both sides
HasEmailShape(text) ==
  \E at, dot \in 1..Len(text) :
    /\ text[at] = "@" /\ text[dot] = "."
    /\ 1 < at /\ at + 1 < dot /\ dot < Len(text)
    /\ \A i \in 1..Len(text) : ~IsSpace(text[i]) /\ (text[i] = "@" => i = at)

EmailRejected(cell) == IsMissing(cell) \/ cell.t # "str" \/ ~HasEmailShape(Trim(cell.s))

\* the statement as the specification words it: a name is rejected only
\* when missing or blank, a birthday only when missing or unparseable
C22_RejectedExactlyWhenMissingOrBlank ==
  (ret.done /\ arg.fn = "validateRecord") =>
    LET name     == Field(arg.record, "name")
        email    == Field(arg.record, "email")
        birthday == Field(arg.record, "birthday")
    IN  ret.value = NullRecord <=>
          \/ IsMissing(name) \/ IsBlank(name)
          \/ EmailRejected(email)
          \/ IsMissing(birthday) \/ parseDate(birthday) = NoDate

\* C22: validateRecord returns null exactly when the name is missing, is not
\* a text or is blank, or the email is missing or its trimmed text has not
\* the shape local@domain.tld, or the birthday is missing, is the number 0
\* or is not parsed by parseDate; the phone and the channel of the row have
\* no part in it.
C22_RejectedExactlyForRequiredFields ==
  (ret.done /\ arg.fn = "validateRecord") =>
    LET name     == Field(arg.record, "name")
        email    == Field(arg.record, "email")
        birthday == Field(arg.record, "birthday")
    IN  ret.value = NullRecord <=>
          \/ IsMissing(name) \/ name.t # "str" \/ IsBlank(name)
          \/ EmailRejected(email)
          \/ IsMissing(birthday) \/ birthday = Num(0) \/ parseDate(birthday) = NoDate

\* a row kept although its phone is not a number and its channel is unknown
C22_Witness ==
  /\ ret.done /\ arg.fn = "validateRecord"
  /\ ret.value # NullRecord
  /\ arg.record.Phone = Str(ShortPhone)
  /\ arg.record.NotificationChannel = Str(<<"s", "m", "s">>)


\* the channel a cell asks for: its trimmed lower-cased text when that is one
\* of the three channels, email otherwise
ChannelAsked(cell) ==
  LET text == IF cell.t = "str" THEN ToLowerCase(Trim(cell.s)) ELSE <<>>
  IN  IF text \in {EMAIL, WHATSAPP, BOTH} THEN text ELSE EMAIL

\* C23: the channel of a validated record is 'email', 'whatsapp' or 'both';
\* on a row whose phone is a valid number it is the trimmed lower-cased text
\* of the channel cell when that text is one of the three, and 'email' for
\* every other cell (empty, missing, not a text, another word).
C23_ChannelNormalized ==
  (ret.done /\ arg.fn = "validateRecord" /\ ret.value # NullRecord) =>
    LET channelRaw == OrElse(arg.record.NotificationChannel,
                             arg.record.notificationChannel)
    IN  /\ ret.value.notificationChannel \in {EMAIL, WHATSAPP, BOTH}
        /\ IsE164(ret.value.phone) =>
             ret.value.notificationChannel = ChannelAsked(channelRaw)
        /\ ChannelAsked(channelRaw) = EMAIL => ret.value.notificationChannel = EMAIL

\* the cell ' Both' on a row with a valid phone gives the channel 'both'
C23_Witness ==
  /\ ret.done /\ arg.fn = "validateRecord"
  /\ arg.record.NotificationChannel = Str(<<" ", "B", "o", "t", "h">>)
  /\ IsE164(ret.value.phone)
  /\ ret.value.notificationChannel = BOTH


\* the Gregorian calendar: the days of a month, February 29 in leap years
IsLeapYear(year) == year % 4 = 0 /\ (year % 100 # 0 \/ year % 400 = 0)
DaysInMonth(year, month) ==
  IF month = 2 THEN (IF IsLeapYear(year) THEN 29 ELSE 28)
  ELSE IF month \in {4, 6, 9, 11} THEN 30 ELSE 31
IsCalendarDate(year, month, day) ==
  month \in 1..12 /\ day \in 1..DaysInMonth(year, month)

\* the month (1..12) and the day of a parsed date, as getMonth() + 1 and
\* getDate() give them
MonthDay(date) == <<date.m + 1, date.d>>

\* C24: parseDate reads a/b/yyyy as month a, day b when that is a date of
\* the calendar, else as month b, day a when that is one, else as no date.
C24_SlashDateReading ==
  (ret.done /\ arg.fn = "parseDate" /\ arg.format # "YYYY-MM-DD") =>
    LET a == IF arg.format = "MM/DD/YYYY" THEN arg.month ELSE arg.day
        b == IF arg.format = "MM/DD/YYYY" THEN arg.day ELSE arg.month
    IN  IF IsCalendarDate(arg.year, a, b)
        THEN ret.value # NoDate /\ MonthDay(ret.value) = <<a, b>>
        ELSE IF IsCalendarDate(arg.year, b, a)
        THEN ret.value # NoDate /\ MonthDay(ret.value) = <<b, a>>
        ELSE ret.value = NoDate

\* the same reading, for the years that new Date takes as they are written
C24_SlashDateReadingFromYear100 ==
  (ret.done /\ arg.fn = "parseDate" /\ arg.format # "YYYY-MM-DD" /\ arg.year >= 100) =>
    LET a == IF arg.format = "MM/DD/YYYY" THEN arg.month ELSE arg.day
        b == IF arg.format = "MM/DD/YYYY" THEN arg.day ELSE arg.month
    IN  IF IsCalendarDate(arg.year, a, b)
        THEN ret.value # NoDate /\ MonthDay(ret.value) = <<a, b>>
        ELSE IF IsCalendarDate(arg.year, b, a)
        THEN ret.value # NoDate /\ MonthDay(ret.value) = <<b, a>>
        ELSE ret.value = NoDate


\* C25: a literal of a date of the calendar, written MM/DD/YYYY, DD/MM/YYYY
\* or YYYY-MM-DD, is parsed to a date whose month and day, taken as the
\* matcher takes them, are the month and day the literal was written from.
C25_LiteralRoundTrip ==
  (ret.done /\ arg.fn = "parseDate" /\ IsCalendarDate(arg.year, arg.month, arg.day)) =>
    ret.value # NoDate /\ MonthDay(ret.value) = <<arg.month, arg.day>>

\* the round trip of the literals that can be read in one way only: a year
\* from 100 on, and a DD/MM/YYYY day above 12 or equal to the month
C25_UnambiguousLiteralRoundTrip ==
  ( /\ ret.done /\ arg.fn = "parseDate"
    /\ IsCalendarDate(arg.year, arg.month, arg.day)
    /\ arg.year >= 100
    /\ arg.format = "DD/MM/YYYY" => (arg.day > 12 \/ arg.day = arg.month) ) =>
    ret.value # NoDate /\ MonthDay(ret.value) = <<arg.month, arg.day>>

\* 5 March 1990 written 05/03/1990 comes back as 3 May
C25_DayReadAsMonth ==
  /\ ret.done /\ arg.fn = "parseDate"
  /\ arg.format = "DD/MM/YYYY" /\ arg.year = 1990 /\ arg.month = 3 /\ arg.day = 5
  /\ MonthDay(ret.value) = <<5, 3>>


\* C26: isBirthdayToday is true exactly when the birthday and the reference
\* date have the same month and the same day of the month, whatever their
\* years: true of a date against itself, and for a birthday of February 29
\* false on February 28 and on March 1.
C26_SameMonthAndDay ==
  (ret.done /\ arg.fn = "isBirthdayToday") =>
    /\ ret.value <=> (arg.birthday.month = arg.today.month /\ arg.birthday.day = arg.today.day)
    /\ arg.birthday = arg.today => ret.value
    /\ (arg.birthday.month = 2 /\ arg.birthday.day = 29) =>
         (ret.value <=> (arg.today.month = 2 /\ arg.today.day = 29))

\* a birthday of 29 February 2000 against 1 March 2023, and no match
C26_Witness ==
  /\ ret.done /\ arg.fn = "isBirthdayToday"
  /\ arg.birthday = [year |-> 2000, month |-> 2, day |-> 29]
  /\ arg.today = [year |-> 2023, month |-> 3, day |-> 1]
  /\ ~ret.value


\* the row numbers of a sequence of records, in its order
RowNumbers(records) == [k \in 1..Len(records) |-> records[k].rowNumber]

\* C27: the matched recipients of a run are the valid records whose month
\* and day are those of the day of the run, in the order of the source; the
\* deliveries are asked recipient after recipient in that order, and none is
\* asked for a recipient while a delivery of an earlier one is unsettled or
\* that earlier recipient is not yet through.
C27_SourceOrder ==
  /\ run.todaysBirthdays # <<>> =>
       \E today \in Todays :
         LET matches == {record \in {run.validRecords[k] : k \in 1..Len(run.validRecords)} :
                           /\ record.birthday.m = today.m
                           /\ record.birthday.d = today.d}
         IN  /\ {run.todaysBirthdays[k] : k \in 1..Len(run.todaysBirthdays)} = matches
             /\ Len(run.todaysBirthdays) = Cardinality(matches)
             /\ \A j, k \in 1..Len(run.todaysBirthdays) :
                  j < k => run.todaysBirthdays[j].rowNumber < run.todaysBirthdays[k].rowNumber
  /\ \A k \in 1..Len(hist.calls) :
       /\ \E p \in 1..Len(run.todaysBirthdays) : run.todaysBirthdays[p] = hist.calls[k].record
       /\ \A j \in 1..(k - 1) :
            /\ hist.calls[j].record.rowNumber <= hist.calls[k].record.rowNumber
            /\ hist.calls[j].outcome # "pending"
            /\ hist.calls[j].record.rowNumber < hist.calls[k].record.rowNumber =>
                 hist.calls[j].record.rowNumber \in Processed
  /\ \E n \in 0..Len(run.todaysBirthdays) :
       hist.processed = SubSeq(RowNumbers(run.todaysBirthdays), 1, n)

\* two matched recipients, the deliveries of row 2 all asked and settled
\* before the first delivery of row 3
C27_Witness ==
  /\ Len(run.todaysBirthdays) = 2
  /\ Len(hist.calls) = 3
  /\ RowNumbers([k \in 1..3 |-> hist.calls[k].record]) = <<2, 2, 3>>
  /\ hist.processed = <<2, 3>>


\* out is text with every {{name}} replaced by the characters of name as
\* they are: each character outside the placeholders and each name stands
\* where the replacements before it have moved it
IsTextWithName(out, text, name) ==
  LET places == {i \in 1..Len(text) : MatchesAt(text, i, NamePlaceholder)}
      grown  == Len(name) - Len(NamePlaceholder)
      moved(i) == i + grown * Cardinality({m \in places : m < i})
  IN  /\ Len(out) = Len(text) + grown * Cardinality(places)
      /\ \A i \in 1..Len(text) :
           IF i \in places
           THEN SubSeq(out, moved(i), moved(i) + Len(name) - 1) = name
           ELSE (\A m \in places : i < m \/ i >= m + Len(NamePlaceholder))
                  => out[moved(i)] = text[i]

HasNamePlaceholder(text) ==
  \E i \in 1..Len(text) : MatchesAt(text, i, NamePlaceholder)

\* C28: the rendered subject and body are the subject and body of the
\* template with every {{name}} replaced by the name supplied and nothing
\* else changed; a text without {{name}} is rendered as it is.
C28_OnlyNameReplaced ==
  (ret.done /\ arg.fn = "renderEmail") =>
    /\ IsTextWithName(ret.value.subject, arg.template.subject, arg.name)
    /\ IsTextWithName(ret.value.body, arg.template.body, arg.name)
    /\ ~HasNamePlaceholder(arg.template.subject) => ret.value.subject = arg.template.subject
    /\ ~HasNamePlaceholder(arg.template.body) => ret.value.body = arg.template.body

\* the same, for the names that hold no $ followed by $, &, a grave accent
\* or '
C28_OnlyNameReplacedWithoutDollarPattern ==
  ( /\ ret.done /\ arg.fn = "renderEmail"
    /\ \A i \in 1..(Len(arg.name) - 1) :
         arg.name[i] = "$" => arg.name[i + 1] \notin {"$", "&", "U+0060", "'"} ) =>
    /\ IsTextWithName(ret.value.subject, arg.template.subject, arg.name)
    /\ IsTextWithName(ret.value.body, arg.template.body, arg.name)

\* the name $$ is rendered as a single $
C28_DollarNameShortened ==
  /\ ret.done /\ arg.fn = "renderEmail"
  /\ arg.template = [subject |-> <<"a", "{", "{", "n", "a", "m", "e", "}", "}", "b">>,
                     body |-> NamePlaceholder]
  /\ arg.name = <<"$", "$">>
  /\ ret.value = [subject |-> <<"a", "$", "b">>, body |-> <<"$">>]

\* C29: the default template rendered for a name has no {{name}} left in
\* its subject and none in its body.
C29_DefaultTemplateFullyRendered ==
  (ret.done /\ arg.fn = "renderEmail" /\ arg.template = defaultTemplate) =>
    ~HasNamePlaceholder(ret.value.subject) /\ ~HasNamePlaceholder(ret.value.body)

\* the same, for the names without a $ pattern and without {{name}} itself
C29_DefaultTemplateFullyRenderedForPlainNames ==
  ( /\ ret.done /\ arg.fn = "renderEmail" /\ arg.template = defaultTemplate
    /\ ~HasNamePlaceholder(arg.name)
    /\ \A i \in 1..(Len(arg.name) - 1) :
         arg.name[i] = "$" => arg.name[i + 1] \notin {"$", "&", "U+0060", "'"} ) =>
    ~HasNamePlaceholder(ret.value.subject) /\ ~HasNamePlaceholder(ret.value.body)

\* for the name $& the default template is rendered as itself
C29_PlaceholderComesBack ==
  /\ ret.done /\ arg.fn = "renderEmail"
  /\ arg.template = defaultTemplate
  /\ arg.name = <<"$", "&">>
  /\ ret.value = defaultTemplate


\* the markers {{ and }} of a text do not balance
IsUnbalanced(text) == DoubleBraces(text, "{") # DoubleBraces(text, "}")

\* a pair of markers {{ }} of a text encloses no variable name
HasEmptyPair(text) ==
  \E i, j \in 1..(Len(text) - 1) :
    /\ i + 2 <= j
    /\ text[i] = "{" /\ text[i + 1] = "{" /\ text[j] = "}" /\ text[j + 1] = "}"
    /\ \A k \in (i + 2)..(j - 1) : IsSpace(text[k])

\* the template a file holds is syntactically invalid
IsInvalidTemplate(template) ==
  \/ IsUnbalanced(template.subject) \/ HasEmptyPair(template.subject)
  \/ IsUnbalanced(template.body) \/ HasEmptyPair(template.body)

\* C30: loadTemplate does not throw; it returns the built-in default when no
\* path is given and when the file of the path is missing, unreadable or
\* holds a syntactically invalid template, and the template of the file only
\* when the file is readable and its template is valid.
C30_LoadFallsBackToDefault ==
  (ret.done /\ arg.fn = "loadTemplate") =>
    LET custom == parseTemplateContent(arg.file.content)
        usable == /\ Truthy(arg.filePath) /\ arg.file.exists /\ arg.file.readable
                  /\ ~IsInvalidTemplate(custom)
    IN  /\ ret.value.threw = "none"
        /\ ret.value.template \in {custom, defaultTemplate}
        /\ ~usable => ret.value.template = defaultTemplate

\* the same with the templates validateTemplate rejects in the place of the
\* invalid ones
C30_LoadFallsBackWhenRejected ==
  (ret.done /\ arg.fn = "loadTemplate") =>
    LET custom == parseTemplateContent(arg.file.content)
        usable == /\ Truthy(arg.filePath) /\ arg.file.exists /\ arg.file.readable
                  /\ validateTemplate(custom) = "none"
    IN  /\ ret.value.threw = "none"
        /\ ret.value.template = IF usable THEN custom ELSE defaultTemplate

\* a file whose subject holds the empty pair {{}} is loaded as it is
C30_EmptyPairLoaded ==
  /\ ret.done /\ arg.fn = "loadTemplate"
  /\ Truthy(arg.filePath)
  /\ HasEmptyPair(ret.value.template.subject)
  /\ ret.value.template # defaultTemplate


\* the template of the file a load call reads
LoadedFileTemplate == parseTemplateContent(arg.file.content)

\* C31: a template whose markers {{ and }} do not balance, or with a marker
\* pair that encloses no variable name, is rejected by validateTemplate, and
\* loadTemplate gives the default template in its place.
C31_InvalidTemplateRejected ==
  ( /\ ret.done /\ arg.fn = "loadTemplate"
    /\ Truthy(arg.filePath) /\ arg.file.exists /\ arg.file.readable
    /\ IsInvalidTemplate(LoadedFileTemplate) ) =>
    /\ validateTemplate(LoadedFileTemplate) # "none"
    /\ ret.value.template = defaultTemplate

\* a pair of markers with white space and nothing else between them
HasBlankPair(text) ==
  \E i, j \in 1..(Len(text) - 1) :
    /\ i + 3 <= j
    /\ text[i] = "{" /\ text[i + 1] = "{" /\ text[j] = "}" /\ text[j + 1] = "}"
    /\ \A k \in (i + 2)..(j - 1) : IsSpace(text[k])

\* what validateTemplate does reject: markers that do not balance, and a
\* pair that holds white space only
C31_UnbalancedOrBlankPairRejected ==
  ( /\ ret.done /\ arg.fn = "loadTemplate"
    /\ Truthy(arg.filePath) /\ arg.file.exists /\ arg.file.readable
    /\ \/ IsUnbalanced(LoadedFileTemplate.subject) \/ HasBlankPair(LoadedFileTemplate.subject)
       \/ IsUnbalanced(LoadedFileTemplate.body) \/ HasBlankPair(LoadedFileTemplate.body) ) =>
    /\ validateTemplate(LoadedFileTemplate) # "none"
    /\ ret.value.template = defaultTemplate

\* the body of a file ends with {{}} and validateTemplate throws nothing
C31_EmptyPairAccepted ==
  /\ ret.done /\ arg.fn = "loadTemplate"
  /\ Truthy(arg.filePath) /\ arg.file.readable
  /\ HasEmptyPair(LoadedFileTemplate.body)
  /\ validateTemplate(LoadedFileTemplate) = "none"

\* the message a sendBirthdayMessage call was given
MessageAsked == [i \in 1..arg.length |-> Digits[(i % 10) + 1]]

\* C32: the body of every request handed to the Messaging transport is the
\* message itself when the message has at most 1600 characters and exactly
\* its first 1600 characters when it is longer, so never more than 1600
\* characters; a message that had to be cut is delivered without an error
\* when the transport accepts it.
C32_BodyCutAt1600 ==
  (ret.done /\ arg.fn = "sendBirthdayMessage") =>
    /\ \A k \in 1..Len(ret.value.requests) :
         LET body == ret.value.requests[k].body
         IN  /\ Len(body) <= 1600
             /\ Len(body) = IF arg.length > 1600 THEN 1600 ELSE arg.length
             /\ \A i \in 1..Len(body) : body[i] = MessageAsked[i]
    /\ (arg.initialized /\ arg.phone # <<>> /\ arg.answers[1].ok) =>
         /\ ret.value.outcome = "resolved"
         /\ Len(ret.value.requests) = 1

\* a message of 1700 characters was handed over and answered
C32_LongMessageSent ==
  /\ ret.done
  /\ arg.fn = "sendBirthdayMessage"
  /\ arg.length = 1700
  /\ arg.answers[1].ok
  /\ Len(ret.value.requests) = 1
  /\ Len(ret.value.requests[1].body) = 1600

\* the answers of the transport to a sendBirthdayMessage call that reached
\* the loop, the failures before the first accepted request, and the error
\* sendMessage throws for a rejected request
ReachedLoop == arg.fn = "sendBirthdayMessage" /\ arg.initialized /\ arg.phone # <<>>
RequestsExpected ==
  IF \E k \in 1..3 : arg.answers[k].ok
    THEN CHOOSE k \in 1..3 : arg.answers[k].ok /\ \A j \in 1..(k - 1) : ~arg.answers[j].ok
    ELSE 3
RecognizedCodes == {21211, 21408, 21610, 63007}
ErrorExpected(answer) ==
  IF answer.error.code \in RecognizedCodes
    THEN [message |-> CASE answer.error.code = 21211 -> "Invalid 'To' phone number"
                        [] answer.error.code = 21408 ->
                             "Permission denied: WhatsApp not enabled for this Twilio account"
                        [] answer.error.code = 21610 -> "Message undeliverable"
                        [] answer.error.code = 63007 -> "Recipient is not on WhatsApp",
          code |-> 0, status |-> 0]
    ELSE answer.error

\* C35: a Messaging delivery is retried after a failed attempt whatever the
\* error, a recognized Twilio code included: the requests made are those up
\* to the first accepted one, three at most, with the delays 1 s and 2 s
\* between them, and when all three fail the error thrown is the one of the
\* third attempt.
C35_RetryWhateverTheError ==
  (ret.done /\ ReachedLoop) =>
    /\ Len(ret.value.requests) = RequestsExpected
    /\ Len(ret.value.requests) <= 3
    /\ ret.value.delays =
         [k \in 1..(IF ret.value.outcome = "resolved" THEN RequestsExpected - 1 ELSE 2)
            |-> backoffDelayMs(k)]
    /\ ret.value.outcome = IF \E k \in 1..3 : arg.answers[k].ok THEN "resolved" ELSE "threw"
    /\ ret.value.outcome = "threw" => ret.value.lastError = <<ErrorExpected(arg.answers[3])>>

\* a delivery whose first attempt failed with a recognized code and whose last
\* attempt failed with another error, which is the one thrown
C35_RecognizedCodeRetried ==
  /\ ret.done
  /\ ReachedLoop
  /\ arg.answers[1].error.code = 21211
  /\ arg.answers[2].error.code = 63007
  /\ ~arg.answers[3].ok /\ arg.answers[3].error.code = 0
  /\ Len(ret.value.requests) = 3
  /\ ret.value.lastError = <<arg.answers[3].error>>

\* C36: a delivery or a connection test asked of a service that was not
\* initialized throws its "not initialized" error at once: no request
\* reaches the transport, no delay is awaited, and testConnection throws
\* instead of returning false.
C36_UninitializedThrowsAtOnce ==
  (ret.done /\ arg.fn \in {"sendBirthdayMessage", "sendBirthdayEmail", "testConnection"}
     /\ ~arg.initialized) =>
    CASE arg.fn = "sendBirthdayMessage" ->
           /\ ret.value.outcome = "threw"
           /\ ret.value.lastError =
                <<[message |-> "WhatsApp service not initialized. Call initialize() first.",
                   code |-> 0, status |-> 0]>>
           /\ ret.value.requests = <<>>
           /\ ret.value.delays = <<>>
      [] arg.fn = "sendBirthdayEmail" ->
           /\ ret.value.outcome = "threw"
           /\ ret.value.lastError =
                <<[message |-> "Email service not initialized. Call initialize() first.",
                   code |-> ""]>>
           /\ ret.value.requests = 0
           /\ ret.value.delays = <<>>
      [] arg.fn = "testConnection" ->
           /\ ret.value.returned = <<>>
           /\ ret.value.requests = 0
           /\ ret.value.threw =
                <<IF arg.service = "email"
                    THEN "Email service not initialized. Call initialize() first."
                    ELSE "WhatsApp service not initialized. Call initialize() first.">>

\* a message was asked of an uninitialized service for a recipient with a
\* phone, whose transport would have accepted it
C36_UninitializedDelivery ==
  /\ ret.done
  /\ arg.fn = "sendBirthdayMessage"
  /\ ~arg.initialized
  /\ arg.phone # <<>>
  /\ arg.answers[1].ok
  /\ ret.value.outcome = "threw"

\* C37: every recipient the run has finished with was the subject of a
\* delivery, on the email or the WhatsApp channel, that made at least one
\* attempt.
C37_EveryMatchedRecipientAttempted ==
  \A row \in Processed :
    \E c \in Calls : c.record.rowNumber = row /\ c.attempts # <<>>

\* a recipient of the channel 'whatsapp' was matched and processed while
\* WhatsApp is disabled, and no delivery was asked for it
C37_WhatsAppOnlySkipped ==
  /\ ~whatsappEnabled
  /\ \E k \in 1..Len(run.todaysBirthdays) :
       /\ run.todaysBirthdays[k].notificationChannel = <<"w", "h", "a", "t", "s", "a", "p", "p">>
       /\ run.todaysBirthdays[k].rowNumber \in Processed
       /\ \A c \in Calls : c.record.rowNumber # run.todaysBirthdays[k].rowNumber

\* C33: a signal ends the process in the same step, also while a delivery
\* waits in its retry delay, whose end is not awaited; and once the process
\* has ended, no delivery is asked, attempted, delayed or settled any more,
\* neither for the recipient in progress nor for the ones after it.
C33_ShutdownEndsDeliveries ==
  [][ /\ (main.signal = "none" /\ main'.signal # "none") =>
           (main'.pc = "exited" /\ hist' = hist /\ ~schedulerTask')
      /\ (main.signal # "none") => (hist' = hist /\ main'.pc = "exited") ]_vars

\* the process has ended during the retry delay of the first of two
\* recipients: its delivery is pending after one failed attempt, and the
\* second recipient has no delivery
C33_ShutDownInRetryDelay ==
  /\ main.pc = "exited"
  /\ main.signal = "SIGTERM"
  /\ run.pc = "exited"
  /\ Len(run.todaysBirthdays) = 2
  /\ Len(hist.calls) = 1
  /\ hist.calls[1].attempts = <<FALSE>>
  /\ hist.calls[1].outcome = "pending"
  /\ hist.processed = <<>>

\* the validated records of the run; the validation is over when its loop
\* has seen every row
ValidRecords == {run.validRecords[k] : k \in 1..Len(run.validRecords)}
Matching == run.pc = "validating" /\ run.i = run.rowCount
AfterMatching ==
  run.pc \in {"templates", "record", "emailSend", "emailDelay", "whatsapp", "waSend",
              "waDelay", "tally"}

\* C34: from the end of the validation to the end of the run no step changes
\* a validated record: the list of valid records stays what it was, the
\* matched records are valid records, field for field, and stay what they
\* were once matched, and every delivery is asked for one of them; this
\* holds through failed attempts, delays and retries.
C34_RecordsNeverChange ==
  [][ (Matching \/ AfterMatching) =>
        /\ run'.validRecords = run.validRecords
        /\ \A k \in 1..Len(run'.todaysBirthdays) : run'.todaysBirthdays[k] \in ValidRecords
        /\ AfterMatching => run'.todaysBirthdays = run.todaysBirthdays
        /\ \A k \in 1..Len(hist'.calls) : hist'.calls[k].record \in ValidRecords ]_vars

\* both attempts of an email delivery have failed and the run has gone on
\* with the same recipient
C34_AfterFailedDelivery ==
  /\ run.pc = "whatsapp"
  /\ hist.calls # <<>>
  /\ hist.calls[Len(hist.calls)].channel = "email"
  /\ hist.calls[Len(hist.calls)].attempts = <<FALSE, FALSE>>
  /\ hist.calls[Len(hist.calls)].outcome = "threw"
  /\ hist.calls[Len(hist.calls)].record = CurrentRecord

Executions ==
  {Execution(run, hist)} \cup {suspended[k] : k \in 1..Len(suspended)}
DeliveriesOf(e, channel, outcome) ==
  Cardinality({j \in 1..Len(e.hist.calls) :
                 /\ e.hist.calls[j].channel = channel
                 /\ e.hist.calls[j].outcome = outcome})

\* C40: whatever executions of checkAndNotify are in progress together, the
\* summary of each counts the deliveries of that execution and no others,
\* and so do its statistics between two recipients: sent the deliveries that
\* resolved, failed the ones that threw.
C40_StatisticsOfOneRun ==
  \A e \in Executions :
    /\ \A k \in 1..Len(e.hist.summaries) :
         /\ e.hist.summaries[k].emailsSent = DeliveriesOf(e, "email", "resolved")
         /\ e.hist.summaries[k].emailsFailed = DeliveriesOf(e, "email", "threw")
         /\ e.hist.summaries[k].whatsappSent = DeliveriesOf(e, "whatsapp", "resolved")
         /\ e.hist.summaries[k].whatsappFailed = DeliveriesOf(e, "whatsapp", "threw")
    /\ e.run.pc = "record" =>
         /\ e.run.statistics.emailSent = DeliveriesOf(e, "email", "resolved")
         /\ e.run.statistics.emailFailed = DeliveriesOf(e, "email", "threw")
         /\ e.run.statistics.whatsappSent = DeliveriesOf(e, "whatsapp", "resolved")
         /\ e.run.statistics.whatsappFailed = DeliveriesOf(e, "whatsapp", "threw")
         /\ e.run.statistics.totalProcessed = Len(e.hist.processed)

\* an execution has written its summary with one email sent while another,
\* started before it, waits in a delivery that has already failed once
C40_SummaryWhileAnotherWaits ==
  /\ hist.summaries # <<>>
  /\ hist.summaries[1].emailsSent = 1
  /\ \E k \in 1..Len(suspended) :
       /\ suspended[k].run.pc \in AwaitPcs
       /\ suspended[k].hist.calls[1].attempts = <<FALSE>>

\* C38: after every call of a sequence of start and stop calls and cron
\* ticks the scheduler has at most one scheduled task, the one its field
\* names, and isRunning tells whether there is one; a start that succeeds
\* leaves exactly the new task scheduled, a stop of a stopped scheduler
\* changes nothing, and a callback that throws leaves the task scheduled.
C38_AtMostOneTask ==
  (ret.done /\ arg.fn = "Scheduler") =>
    /\ \A k \in 1..Len(ret.value) :
         /\ Cardinality(ret.value[k].scheduled) <= 1
         /\ isRunning(ret.value[k]) <=> ret.value[k].scheduled # {}
         /\ ret.value[k].scheduled # {} => ret.value[k].scheduled = {ret.value[k].task}
    /\ \A k \in 1..Len(arg.calls) :
         /\ arg.calls[k] = "start" =>
              /\ Cardinality(ret.value[k + 1].scheduled) = 1
              /\ ret.value[k + 1].scheduled \cap ret.value[k].scheduled = {}
         /\ (arg.calls[k] = "stop" /\ ret.value[k].scheduled = {}) =>
              ret.value[k + 1] = ret.value[k]
         /\ arg.calls[k] = "stop" => ret.value[k + 1].scheduled = {}
         /\ arg.calls[k] \in {"tick", "tick, callback throws"} =>
              /\ ret.value[k + 1].scheduled = ret.value[k].scheduled
              /\ ret.value[k + 1].task = ret.value[k].task

\* a running scheduler was started again, its callback threw at the next
\* tick, and it was then stopped
C38_RestartedThenStopped ==
  /\ ret.done
  /\ arg.fn = "Scheduler"
  /\ arg.calls = <<"start", "start", "tick, callback throws", "stop">>
  /\ ret.value[3].task = 2
  /\ ret.value[4].logged = 1
  /\ ~isRunning(ret.value[5])

====
